---- MODULE Spec2Model ----
(***************************************************************************)
(* A sharded key-value store: the storage engine of fastdb.js (in-memory   *)
(* table, binary write-ahead log, snapshot, recovery), the shard request   *)
(* handlers with quorum replication of shard.js, the hash ring of hash.js  *)
(* and the /kv proxy of coordinator.js.                                    *)
(*                                                                         *)
(* Bytes are integers 0..255, buffers and strings are sequences of bytes.  *)
(* A stored value is either a string, [kind |-> "string", text |-> bytes], *)
(* or a structured JSON value; the only structured value of the model is   *)
(* the empty object {}.  The byte alphabet of keys and values is           *)
(* a, b, v, { and } ; over this alphabet (and the header bytes 0, 1, 2)    *)
(* the only text JSON.parse accepts is "{}".  The ts field of a record     *)
(* (Date.now() at apply time) is not modelled.                             *)
(***************************************************************************)
EXTENDS Integers, Sequences, FiniteSets, TLC

\* ------------------------------------------------------------------ bounds
MaxOps == 3
MaxRestarts == 2
MaxReqs == 2
MaxQuorum == 3
MaxVnodes == 2
MaxPosition == 2
MaxPicks == 2
MaxRouterReqs == 2
MaxThrown == 2

\* --------------------------------------------------------------- constants
OP_PUT == 1
OP_DEL == 2
HEADER_LEN == 9
VNODES_MIN == 10

Shards == {"s1", "s2", "s3"}
Primary == "s1"

\* The entries a replica list can hold: an entry names a shard, and "s2b" is
\* a second entry for shard s2 (its URL repeated, or another URL of it).
Peers == Shards \cup {"s2b"}
shardOf(u) == IF u = "s2b" THEN "s2" ELSE u

KeyA == <<97>>
KeyB == <<98>>
Keys == {KeyA, KeyB}

TextV == <<118>>
TextBraces == <<123, 125>>

Str(t) == [kind |-> "string", text |-> t]
EmptyObject == [kind |-> "object", members |-> <<>>]
Null == [kind |-> "null"]
PutValues == {Str(TextV), Str(TextBraces), EmptyObject}

EmptyTable == [k \in {} |-> Null]
NoSnapshot == [exists |-> FALSE, ok |-> FALSE, entries |-> {}]

Min(a, b) == IF a < b THEN a ELSE b

Reqs == 1..MaxReqs
ReplicaLists == {<<>>, <<"s2">>, <<"s2", "s3">>}
NoRequest == [method |-> "none", key |-> <<>>, ctype |-> "none", body |-> <<>>,
              forwarded |-> FALSE]
NoReply == [status |-> 0, ok |-> FALSE, acks |-> 0, quorum |-> 0]

Coordinators == {"c1", "c2"}
Router == "c1"
ShardLists == {<<"s1">>, <<"s1", "s2">>, <<"s2", "s1">>}
Positions == 0..MaxPosition
RouterReqs == 1..MaxRouterReqs
NoResponse == [status |-> 0]

VARIABLES
    memTable,      \* [shard -> table]: key |-> [value |-> v], the Map of fastdb.js
    walQueue,      \* [shard -> sequence of serialized records not yet written]
    walFile,       \* [shard -> bytes of wal.log on disk]
    snapshotFile,  \* [shard -> content of snapshot.json.gz on disk]
    engine,        \* [shard -> "open" | "closed" | "down" | "failed"]
    \* history variables, read only by the properties
    applied,       \* [shard -> mutations applied by put/del since the engine opened]
    opCount,       \* put/del calls made so far on the primary's engine
    restarts,      \* makeFastDB calls after the first
    downBy,        \* how the primary's engine last stopped: "none" | "close" | "crash"
    torn,          \* what was done to the WAL while stopped: "none" | "cut" | "garbage"
    everTorn,      \* the WAL file was torn at some time
    tableAtOpen,   \* the primary's table as recovery left it
    tableAtClose,  \* the primary's table when close() was called
    flushedTable,  \* the primary's table when WAL records were last written and fsynced
    walBeforeTear, \* the complete records of the WAL that precede the torn bytes
    thrown,        \* the calls made on the primary's closed engine, with what each threw
    walAtOpen,     \* the primary's WAL file as the last makeFastDB found it
    \* the primary shard's server (shard.js)
    REPLICAS,      \* --replicas: the peer shards, in order
    quorumSize,    \* --quorum
    requests,      \* [request -> the write request received, NoRequest before]
    pc,            \* [request -> where its handler stands]
    acks,          \* [request -> the acks counter of its replicate() call]
    promise,       \* [request -> [shard -> state of the forwardWrite promise]]
    delivery,      \* [request -> [shard -> what became of the forwarded request]]
    reply,         \* [request -> the reply sent to the client, NoReply before]
    mark,          \* [request -> [shard -> index in applied[shard] of its mutation, or 0]]
    \* the hash ring (hash.js)
    sha1,          \* [string -> first 32 bits of its SHA-1 digest], fixed for a behaviour
    SHARDS,        \* --shards: the shard list the ring is built from, in order
    vnodeCount,    \* the vnodes argument of buildRing
    ring,          \* [coordinator -> its ring, <<>> before it is built]
    picks,         \* [coordinator -> the pickNode calls made: <<[key, node], ...>>]
    \* the coordinator's /kv handler (coordinator.js)
    rreq,          \* [router request -> the client request, NoRequest before]
    rpc,           \* [router request -> where its handler stands]
    proxied,       \* [router request -> the fetch calls of proxy(): <<[shard, request]>>]
    resp,          \* [router request -> the response of the shard, NoResponse before]
    rreply,        \* [router request -> what the client received, NoReply before]
    repliedBefore  \* [router request -> the requests answered when it arrived]

shardVars == <<REPLICAS, quorumSize, requests, pc, acks, promise, delivery, reply, mark>>
engineVars == <<memTable, walQueue, walFile, snapshotFile, engine>>
histVars == <<applied, opCount, restarts, downBy, torn, everTorn, tableAtOpen,
              tableAtClose, flushedTable, walBeforeTear, thrown, walAtOpen>>
ringVars == <<sha1, SHARDS, vnodeCount, ring, picks>>
routerVars == <<rreq, rpc, proxied, resp, rreply, repliedBefore>>
coordVars == <<ringVars, routerVars>>

\* ------------------------------------------------------------ JSON, buffers

\* JSON.stringify of a structured value.
JSONstringify(value) == IF value = EmptyObject THEN TextBraces ELSE value.text

\* JSON.parse: the parsed value, or ok = FALSE where JSON.parse throws.
JSONparse(text) ==
    IF text = TextBraces THEN [ok |-> TRUE, value |-> EmptyObject]
    ELSE [ok |-> FALSE, value |-> Null]

\* buf.writeUInt32BE(n): four bytes, most significant first.
writeUInt32BE(n) ==
    << (n \div 16777216) % 256, (n \div 65536) % 256, (n \div 256) % 256, n % 256 >>

\* buf.readUInt32BE(offset), offset counted from 0; the caller checks the range.
readUInt32BE(buf, offset) ==
    buf[offset + 1] * 16777216 + buf[offset + 2] * 65536 + buf[offset + 3] * 256
        + buf[offset + 4]

\* buf.slice(start, end): both ends are clamped to the buffer.
slice(buf, start, end) == SubSeq(buf, Min(start, Len(buf)) + 1, Min(end, Len(buf)))

\* offset += n. An offset at or past the end of the buffer reads nothing more
\* (slice clamps it and the loop of recover() ends), so the sum stops at the
\* end of the buffer: a length read from garbage can be as large as 2^32 - 1.
advance(buf, offset, n) ==
    IF n >= Len(buf) - offset THEN Len(buf) ELSE offset + n

RECURSIVE concat(_)
\* Buffer.concat(list)
concat(list) == IF list = <<>> THEN <<>> ELSE Head(list) \o concat(Tail(list))

\* ------------------------------------------------------------------ engine

serializeRecord(op, key, value) ==
    LET keyBuf == key
        serializedValue ==
            IF value.kind = "object" THEN JSONstringify(value) ELSE value.text
    IN  << IF op = "put" THEN OP_PUT ELSE OP_DEL >>
            \o writeUInt32BE(Len(keyBuf)) \o writeUInt32BE(Len(serializedValue))
            \o keyBuf \o serializedValue

applyRecordNoDelete(table, op, key, value) ==
    IF op = "put"
    THEN [k \in DOMAIN table \cup {key} |-> IF k = key THEN [value |-> value] ELSE table[k]]
    ELSE table

applyRecord(table, op, key, value) ==
    IF op = "put"
    THEN [k \in DOMAIN table \cup {key} |-> IF k = key THEN [value |-> value] ELSE table[k]]
    ELSE IF op = "del"
    THEN [k \in DOMAIN table \ {key} |-> table[k]]
    ELSE table

\* get(key): memTable.get(key) || null
get(s, key) == IF key \in DOMAIN memTable[s] THEN memTable[s][key] ELSE Null

putNoWal(s, key, value) ==
    /\ walQueue' = walQueue
    /\ memTable' = [memTable EXCEPT ![s] = applyRecord(@, "put", key, value)]
    /\ applied' = [applied EXCEPT ![s] = Append(@, [op |-> "put", key |-> key, value |-> value])]

\* The state change of put(key, value) on an engine that is not closed.
put(s, key, value) ==
    /\ walQueue' = [walQueue EXCEPT ![s] = Append(@, serializeRecord("put", key, value))]
    /\ memTable' = [memTable EXCEPT ![s] = applyRecord(@, "put", key, value)]
    /\ applied' = [applied EXCEPT ![s] = Append(@, [op |-> "put", key |-> key, value |-> value])]

\* The state change of del(key) on an engine that is not closed.
del(s, key) ==
    /\ walQueue' = [walQueue EXCEPT ![s] = Append(@, serializeRecord("del", key, Str(<<>>)))]
    /\ memTable' = [memTable EXCEPT ![s] = applyRecord(@, "del", key, Null)]
    /\ applied' = [applied EXCEPT ![s] = Append(@, [op |-> "del", key |-> key, value |-> Null])]

\* The file content takeSnapshot writes: the [key, record] entries of the table.
snapshotOf(table) ==
    [exists |-> TRUE, ok |-> TRUE, entries |-> {<<k, table[k]>> : k \in DOMAIN table}]

\* The table recovery builds from a snapshot file that parses.
tableOf(entries) ==
    [k \in {e[1] : e \in entries} |-> (CHOOSE e \in entries : e[1] = k)[2]]

RECURSIVE walReplay(_, _, _)
\* The WAL loop of recover(): threw = TRUE where readUInt32BE throws a RangeError.
walReplay(walData, offset, table) ==
    IF ~(offset < Len(walData)) THEN [threw |-> FALSE, table |-> table]
    ELSE
        LET opCode == walData[offset + 1]
            o1 == offset + 1
        IN  IF o1 + 4 > Len(walData) \/ o1 + 8 > Len(walData)
            THEN [threw |-> TRUE, table |-> table]
            ELSE
                LET keyLen == readUInt32BE(walData, o1)
                    valLen == readUInt32BE(walData, o1 + 4)
                    o2 == o1 + 8
                    o3 == advance(walData, o2, keyLen)
                    key == slice(walData, o2, o3)
                    o4 == advance(walData, o3, valLen)
                    raw == slice(walData, o3, o4)
                    parsed == JSONparse(raw)
                    value == IF parsed.ok /\ parsed.value.kind = "object"
                             THEN parsed.value ELSE Str(raw)
                IN  walReplay(walData, o4,
                        applyRecord(table, IF opCode = OP_PUT THEN "put" ELSE "del", key, value))

recoverTrustingSnapshot(snap, walData) ==
    walReplay(walData, 0, IF snap.exists THEN tableOf(snap.entries) ELSE EmptyTable)

\* recover(): the snapshot if it is there and parses, then the whole WAL.
recover(snap, walData) ==
    walReplay(walData, 0,
        IF snap.exists /\ snap.ok THEN tableOf(snap.entries) ELSE EmptyTable)

\* ---------------------------------------------------------- engine actions

\* db.put(key, value) called on the primary's engine.
Put(s, key, value) ==
    /\ engine[s] = "open"
    /\ opCount < MaxOps
    /\ put(s, key, value)
    /\ opCount' = opCount + 1
    /\ UNCHANGED <<walFile, snapshotFile, engine, restarts, downBy, torn, everTorn,
                   tableAtOpen, tableAtClose, flushedTable, walBeforeTear,
                   thrown, walAtOpen>>
    /\ UNCHANGED shardVars
    /\ UNCHANGED coordVars

\* db.del(key) called on the primary's engine.
Del(s, key) ==
    /\ engine[s] = "open"
    /\ opCount < MaxOps
    /\ del(s, key)
    /\ opCount' = opCount + 1
    /\ UNCHANGED <<walFile, snapshotFile, engine, restarts, downBy, torn, everTorn,
                   tableAtOpen, tableAtClose, flushedTable, walBeforeTear,
                   thrown, walAtOpen>>
    /\ UNCHANGED shardVars
    /\ UNCHANGED coordVars

FlushTickReversed(s) ==
    /\ engine[s] = "open"
    /\ walQueue[s] # <<>>
    /\ walFile' = [walFile EXCEPT ![s] =
            @ \o concat([i \in 1..Len(walQueue[s]) |-> walQueue[s][Len(walQueue[s]) + 1 - i]])]
    /\ walQueue' = [walQueue EXCEPT ![s] = <<>>]
    /\ flushedTable' = IF s = Primary THEN memTable[s] ELSE flushedTable
    /\ UNCHANGED <<memTable, snapshotFile, engine, applied, opCount, restarts, downBy,
                   torn, everTorn, tableAtOpen, tableAtClose, walBeforeTear,
                   thrown, walAtOpen>>
    /\ UNCHANGED shardVars
    /\ UNCHANGED coordVars

FlushTickHead(s) ==
    /\ engine[s] = "open"
    /\ walQueue[s] # <<>>
    /\ walFile' = [walFile EXCEPT ![s] = @ \o Head(walQueue[s])]
    /\ walQueue' = [walQueue EXCEPT ![s] = Tail(@)]
    /\ flushedTable' = IF s = Primary THEN memTable[s] ELSE flushedTable
    /\ UNCHANGED <<memTable, snapshotFile, engine, applied, opCount, restarts, downBy,
                   torn, everTorn, tableAtOpen, tableAtClose, walBeforeTear,
                   thrown, walAtOpen>>
    /\ UNCHANGED shardVars
    /\ UNCHANGED coordVars

\* A tick of flushTimer that finds records in the queue.
FlushTick(s) ==
    /\ engine[s] = "open"
    /\ walQueue[s] # <<>>
    /\ walFile' = [walFile EXCEPT ![s] = @ \o concat(walQueue[s])]
    /\ walQueue' = [walQueue EXCEPT ![s] = <<>>]
    /\ flushedTable' = IF s = Primary THEN memTable[s] ELSE flushedTable
    /\ UNCHANGED <<memTable, snapshotFile, engine, applied, opCount, restarts, downBy,
                   torn, everTorn, tableAtOpen, tableAtClose, walBeforeTear,
                   thrown, walAtOpen>>
    /\ UNCHANGED shardVars
    /\ UNCHANGED coordVars

SnapshotTickTruncating(s) ==
    /\ engine[s] = "open"
    /\ snapshotFile[s] # snapshotOf(memTable[s])
    /\ snapshotFile' = [snapshotFile EXCEPT ![s] = snapshotOf(memTable[s])]
    /\ walFile' = [walFile EXCEPT ![s] = <<>>]
    /\ UNCHANGED <<memTable, walQueue, engine>>
    /\ UNCHANGED histVars
    /\ UNCHANGED shardVars
    /\ UNCHANGED coordVars

SnapshotTickIgnoringClosed(s) ==
    /\ engine[s] \in {"open", "closed"}
    /\ snapshotFile[s] # snapshotOf(memTable[s])
    /\ snapshotFile' = [snapshotFile EXCEPT ![s] = snapshotOf(memTable[s])]
    /\ UNCHANGED <<memTable, walQueue, walFile, engine>>
    /\ UNCHANGED histVars
    /\ UNCHANGED shardVars
    /\ UNCHANGED coordVars

\* A tick of snapshotTimer: takeSnapshot() unless closed.
SnapshotTick(s) ==
    /\ engine[s] = "open"
    /\ snapshotFile[s] # snapshotOf(memTable[s])
    /\ snapshotFile' = [snapshotFile EXCEPT ![s] = snapshotOf(memTable[s])]
    /\ UNCHANGED <<memTable, walQueue, walFile, engine>>
    /\ UNCHANGED histVars
    /\ UNCHANGED shardVars
    /\ UNCHANGED coordVars

CloseNoDrain(s) ==
    /\ engine[s] = "open"
    /\ engine' = [engine EXCEPT ![s] = "closed"]
    /\ tableAtClose' = memTable[s]
    /\ downBy' = "close"
    /\ torn' = "none"
    /\ UNCHANGED <<memTable, walQueue, walFile, snapshotFile, applied, opCount, restarts,
                   everTorn, tableAtOpen, flushedTable, walBeforeTear, thrown, walAtOpen>>
    /\ UNCHANGED shardVars
    /\ UNCHANGED coordVars

\* db.close(): the final drain of the queue.
Close(s) ==
    /\ engine[s] = "open"
    /\ engine' = [engine EXCEPT ![s] = "closed"]
    /\ walFile' = [walFile EXCEPT ![s] = @ \o concat(walQueue[s])]
    /\ walQueue' = [walQueue EXCEPT ![s] = <<>>]
    /\ flushedTable' = IF walQueue[s] # <<>> THEN memTable[s] ELSE flushedTable
    /\ tableAtClose' = memTable[s]
    /\ downBy' = "close"
    /\ torn' = "none"
    /\ UNCHANGED <<memTable, snapshotFile, applied, opCount, restarts, everTorn,
                   tableAtOpen, walBeforeTear,
                   thrown, walAtOpen>>
    /\ UNCHANGED shardVars
    /\ UNCHANGED coordVars

\* The process dies: the table and the queue are lost, the files stay.
Crash(s) ==
    /\ engine[s] = "open"
    /\ engine' = [engine EXCEPT ![s] = "down"]
    /\ memTable' = [memTable EXCEPT ![s] = EmptyTable]
    /\ walQueue' = [walQueue EXCEPT ![s] = <<>>]
    /\ applied' = [applied EXCEPT ![s] = <<>>]
    /\ downBy' = "crash"
    /\ torn' = "none"
    /\ UNCHANGED <<walFile, snapshotFile, opCount, restarts, everTorn,
                   tableAtOpen, tableAtClose, flushedTable, walBeforeTear,
                   thrown, walAtOpen>>
    /\ UNCHANGED shardVars
    /\ UNCHANGED coordVars

OpenReappending(s) ==
    /\ engine[s] \in {"closed", "down"}
    /\ restarts < MaxRestarts
    /\ restarts' = restarts + 1
    /\ LET r == recover(snapshotFile[s], walFile[s])
       IN  /\ engine' = [engine EXCEPT ![s] = IF r.threw THEN "failed" ELSE "open"]
           /\ memTable' = [memTable EXCEPT ![s] = r.table]
           /\ tableAtOpen' = r.table
    /\ walFile' = [walFile EXCEPT ![s] = @ \o @]
    /\ walQueue' = [walQueue EXCEPT ![s] = <<>>]
    /\ walAtOpen' = IF s = Primary THEN walFile[s] ELSE walAtOpen
    /\ applied' = [applied EXCEPT ![s] = <<>>]
    /\ UNCHANGED <<snapshotFile, opCount, downBy, torn, everTorn,
                   tableAtClose, flushedTable, walBeforeTear,
                   thrown>>
    /\ UNCHANGED shardVars
    /\ UNCHANGED coordVars

\* makeFastDB on the data directory of a stopped engine: recover() runs, and
\* a RangeError it throws leaves no engine.
Open(s) ==
    /\ engine[s] \in {"closed", "down"}
    /\ restarts < MaxRestarts
    /\ restarts' = restarts + 1
    /\ LET r == recover(snapshotFile[s], walFile[s])
       IN  /\ engine' = [engine EXCEPT ![s] = IF r.threw THEN "failed" ELSE "open"]
           /\ memTable' = [memTable EXCEPT ![s] = r.table]
           /\ tableAtOpen' = r.table
    /\ walQueue' = [walQueue EXCEPT ![s] = <<>>]
    /\ walAtOpen' = IF s = Primary THEN walFile[s] ELSE walAtOpen
    /\ applied' = [applied EXCEPT ![s] = <<>>]
    /\ UNCHANGED <<walFile, snapshotFile, opCount, downBy, torn, everTorn,
                   tableAtClose, flushedTable, walBeforeTear,
                   thrown>>
    /\ UNCHANGED shardVars
    /\ UNCHANGED coordVars

\* Where the last record of a well-formed WAL starts (offset counted from 0).
RECURSIVE lastRecordStart(_, _)
lastRecordStart(walData, offset) ==
    LET next == offset + HEADER_LEN + readUInt32BE(walData, offset + 1)
                    + readUInt32BE(walData, offset + 5)
    IN  IF next >= Len(walData) THEN offset ELSE lastRecordStart(walData, next)

\* The bytes of 'corrupted data', and a shorter piece of them.
CorruptedData == <<99, 111, 114, 114, 117, 112, 116, 101, 100, 32, 100, 97, 116, 97>>
Garbage == {CorruptedData, SubSeq(CorruptedData, 1, 3)}

\* The WAL file of a stopped engine is damaged: its last record is cut short
\* at some byte (a write the crash interrupted), or garbage is appended to it.
Tear(s) ==
    /\ engine[s] \in {"closed", "down"}
    /\ ~everTorn
    /\ restarts < MaxRestarts
    /\ \/ /\ walFile[s] # <<>>
          /\ \E newLen \in (lastRecordStart(walFile[s], 0) + 1) .. (Len(walFile[s]) - 1) :
                walFile' = [walFile EXCEPT ![s] = SubSeq(@, 1, newLen)]
          /\ walBeforeTear' = SubSeq(walFile[s], 1, lastRecordStart(walFile[s], 0))
          /\ torn' = "cut"
       \/ /\ \E g \in Garbage : walFile' = [walFile EXCEPT ![s] = @ \o g]
          /\ walBeforeTear' = walFile[s]
          /\ torn' = "garbage"
    /\ everTorn' = TRUE
    /\ UNCHANGED <<memTable, walQueue, snapshotFile, engine, applied, opCount, restarts,
                   downBy, tableAtOpen, tableAtClose, flushedTable,
                   thrown, walAtOpen>>
    /\ UNCHANGED shardVars
    /\ UNCHANGED coordVars

\* ---------------------------------------------------------------- hash ring

\* The bytes of a shard identifier.
utf8(n) ==
    CASE n = "s1" -> <<115, 49>>
      [] n = "s2" -> <<115, 50>>
      [] n = "s3" -> <<115, 51>>

RECURSIVE decimal(_)
\* The decimal digits of i, as string concatenation writes a number.
decimal(i) == IF i < 10 THEN <<48 + i>> ELSE decimal(i \div 10) \o <<48 + (i % 10)>>

\* n + '#' + i
vnodeLabel(n, i) == utf8(n) \o <<35>> \o decimal(i)

\* The strings that are hashed: the labels of the virtual nodes, and the keys.
AllLabels == {vnodeLabel(n, i) : n \in Shards, i \in 0..(VNODES_MIN - 1)} \cup Keys

\* The labels whose positions vary over all of Positions.
FreeLabels == {vnodeLabel(n, i) : n \in {"s1", "s2"}, i \in 0..(MaxVnodes - 1)} \cup Keys

\* SHA-1 is taken as an unknown function: every assignment of positions to
\* the free labels, position 0 for the other labels. Positions stand for the
\* unsigned 32-bit values; the code only compares and subtracts them as
\* doubles, so their width plays no part.
Hashes ==
    {[l \in AllLabels |-> IF l \in FreeLabels THEN g[l] ELSE 0] : g \in [FreeLabels -> Positions]}

\* crypto.createHash('sha1').update(s).digest().readUInt32BE(0)
hashInt(s) == sha1[s]

\* The comparator of ring.sort.
compare(a, b) == a.hash - b.hash

RECURSIVE insertBeforeEqual(_, _)
insertBeforeEqual(sorted, e) ==
    IF sorted = <<>> THEN <<e>>
    ELSE IF compare(Head(sorted), e) < 0
         THEN <<Head(sorted)>> \o insertBeforeEqual(Tail(sorted), e)
    ELSE <<e>> \o sorted

RECURSIVE insert(_, _)
\* e placed behind every entry that does not compare greater than it.
insert(sorted, e) ==
    IF sorted = <<>> THEN <<e>>
    ELSE IF compare(Head(sorted), e) <= 0 THEN <<Head(sorted)>> \o insert(Tail(sorted), e)
    ELSE <<e>> \o sorted

RECURSIVE sort(_)
\* Array.prototype.sort with the comparator: a stable sort.
sort(list) ==
    IF list = <<>> THEN <<>>
    ELSE insert(sort(SubSeq(list, 1, Len(list) - 1)), list[Len(list)])

\* buildRing(nodes, vnodes): one entry per node and virtual node index, pushed
\* node by node, then sorted by hash.
buildRing(nodes, vnodes) ==
    sort([j \in 1..(Len(nodes) * vnodes) |->
            LET n == nodes[((j - 1) \div vnodes) + 1]
                i == (j - 1) % vnodes
            IN  [hash |-> hashInt(vnodeLabel(n, i)), node |-> n]])

RECURSIVE searchLessEq(_, _, _, _)
searchLessEq(r, h, lo, hi) ==
    IF ~(lo <= hi) THEN lo
    ELSE LET mid == (lo + hi) \div 2
         IN  IF r[mid + 1].hash <= h THEN searchLessEq(r, h, mid + 1, hi)
             ELSE searchLessEq(r, h, lo, mid - 1)

RECURSIVE search(_, _, _, _)
\* The loop of pickNode: lo when it ends (indices counted from 0).
search(r, h, lo, hi) ==
    IF ~(lo <= hi) THEN lo
    ELSE LET mid == (lo + hi) \div 2
         IN  IF r[mid + 1].hash < h THEN search(r, h, mid + 1, hi)
             ELSE search(r, h, lo, mid - 1)

pickNodeNoWrap(r, key) ==
    LET lo == search(r, hashInt(key), 0, Len(r) - 1)
    IN  IF lo < Len(r) THEN r[lo + 1].node ELSE "TypeError"

\* pickNode(ring, key): (ring[lo] || ring[0]).node, a TypeError on an empty ring.
pickNode(r, key) ==
    LET lo == search(r, hashInt(key), 0, Len(r) - 1)
    IN  IF lo < Len(r) THEN r[lo + 1].node
        ELSE IF Len(r) > 0 THEN r[1].node
        ELSE "TypeError"

vars == <<memTable, walQueue, walFile, snapshotFile, engine, applied, opCount,
          restarts, downBy, torn, everTorn, tableAtOpen, tableAtClose, flushedTable,
          walBeforeTear, thrown, walAtOpen, REPLICAS, quorumSize, requests, pc, acks, promise, delivery,
          reply, mark, sha1, SHARDS, vnodeCount, ring, picks, rreq, rpc, proxied, resp,
          rreply, repliedBefore>>

\* Every shard's engine open on an empty data directory.
EngineInit ==
    /\ memTable = [s \in Shards |-> EmptyTable]
    /\ walQueue = [s \in Shards |-> <<>>]
    /\ walFile = [s \in Shards |-> <<>>]
    /\ snapshotFile = [s \in Shards |-> NoSnapshot]
    /\ engine = [s \in Shards |-> "open"]
    /\ applied = [s \in Shards |-> <<>>]
    /\ opCount = 0
    /\ restarts = 0
    /\ downBy = "none"
    /\ torn = "none"
    /\ everTorn = FALSE
    /\ tableAtOpen = EmptyTable
    /\ tableAtClose = EmptyTable
    /\ flushedTable = EmptyTable
    /\ walBeforeTear = <<>>
    /\ thrown = <<>>
    /\ walAtOpen = <<>>

\* No request received yet.
ServerInit ==
    /\ requests = [r \in Reqs |-> NoRequest]
    /\ pc = [r \in Reqs |-> "idle"]
    /\ acks = [r \in Reqs |-> 0]
    /\ promise = [r \in Reqs |-> [s \in Peers |-> "none"]]
    /\ delivery = [r \in Reqs |-> [s \in Peers |-> "none"]]
    /\ reply = [r \in Reqs |-> NoReply]
    /\ mark = [r \in Reqs |-> [s \in Shards |-> 0]]

\* No router request received yet.
RouterInit ==
    /\ rreq = [q \in RouterReqs |-> NoRequest]
    /\ rpc = [q \in RouterReqs |-> "idle"]
    /\ proxied = [q \in RouterReqs |-> <<>>]
    /\ resp = [q \in RouterReqs |-> NoResponse]
    /\ rreply = [q \in RouterReqs |-> NoReply]
    /\ repliedBefore = [q \in RouterReqs |-> {}]

\* No coordinator runs.
CoordOff ==
    /\ sha1 = [l \in AllLabels |-> 0]
    /\ SHARDS = <<>>
    /\ vnodeCount = 0
    /\ ring = [c \in Coordinators |-> <<>>]
    /\ picks = [c \in Coordinators |-> <<>>]
    /\ RouterInit

\* The engine alone, called through its API: no replicas, quorum 1 (the defaults).
Init ==
    /\ EngineInit
    /\ ServerInit
    /\ CoordOff
    /\ REPLICAS = <<>>
    /\ quorumSize = 1

EngineNext ==
    \/ \E k \in Keys, v \in PutValues : Put(Primary, k, v)
    \/ \E k \in Keys : Del(Primary, k)
    \/ FlushTick(Primary)
    \/ SnapshotTick(Primary)
    \/ Close(Primary)
    \/ Crash(Primary)
    \/ Open(Primary)

SpecEngine == Init /\ [][EngineNext]_vars

\* The engine over a WAL file that is torn while the engine is stopped, with
\* mutations of one key.
TornNext ==
    \/ \E v \in PutValues : Put(Primary, KeyA, v)
    \/ Del(Primary, KeyA)
    \/ FlushTick(Primary)
    \/ SnapshotTick(Primary)
    \/ Close(Primary)
    \/ Crash(Primary)
    \/ Open(Primary)
    \/ Tear(Primary)

SpecTorn == Init /\ [][TornNext]_vars

\* ------------------------------------------------------- the shard's server

\* The write requests a client or a peer shard sends to /kv of the primary.
WriteRequests ==
    {[method |-> "PUT", key |-> KeyA, ctype |-> "text/plain", body |-> TextV,
      forwarded |-> f] : f \in BOOLEAN}
    \cup {[method |-> "PUT", key |-> KeyA, ctype |-> "application/json", body |-> b,
           forwarded |-> FALSE] : b \in {TextV, TextBraces}}
    \cup {[method |-> "DELETE", key |-> KeyA, ctype |-> "none", body |-> <<>>,
           forwarded |-> f] : f \in BOOLEAN}

\* The PUT handler's value: the parsed body under application/json (ok = FALSE
\* where JSON.parse throws and the reply is 400), the body as a string otherwise.
requestValue(m) ==
    IF m.ctype = "application/json" THEN JSONparse(m.body)
    ELSE [ok |-> TRUE, value |-> Str(m.body)]

\* The request forwardWrite sends to a replica for a mutation of the primary.
forwardWrite(method, key, value) ==
    [method |-> method, key |-> key,
     ctype |-> IF method # "PUT" THEN "none"
               ELSE IF value.kind = "object" THEN "application/json" ELSE "text/plain",
     body |-> IF method # "PUT" THEN <<>>
              ELSE IF value.kind = "object" THEN JSONstringify(value) ELSE value.text,
     forwarded |-> TRUE]

isForwardedNever(m) == FALSE

\* req.headers['x-forwarded-by']: set on the requests forwardWrite sends.
isForwarded(m) == m.forwarded

applyRequestLogOnly(s, m) ==
    /\ walQueue' = walQueue
    /\ memTable' = memTable
    /\ applied' = [applied EXCEPT ![s] = Append(@,
            IF m.method = "PUT"
            THEN [op |-> "put", key |-> m.key, value |-> requestValue(m).value]
            ELSE [op |-> "del", key |-> m.key, value |-> Null])]

\* The state change of DB.put / DB.del for a request the handler accepted.
applyRequest(s, m) ==
    IF m.method = "PUT" THEN put(s, m.key, requestValue(m).value) ELSE del(s, m.key)

\* The mutation a request makes on the shard that handles it.
mutationOf(m) ==
    IF m.method = "PUT"
    THEN [op |-> "put", key |-> m.key, value |-> requestValue(m).value]
    ELSE [op |-> "del", key |-> m.key, value |-> Null]

Replicas == {REPLICAS[i] : i \in 1..Len(REPLICAS)}

\* Math.min(quorumSize, REPLICAS.length + 1)
threshold == Min(quorumSize, Len(REPLICAS) + 1)

\* p.status of a promise: a Promise has no such property.
promiseStatus(r, s) == "undefined"

\* promises.every(p => p.status === 'fulfilled' || p.status === 'rejected')
everySettled(r) == \A s \in Replicas : promiseStatus(r, s) \in {"fulfilled", "rejected"}

\* replicate() without replicas.
noReplicasResultQuorum == [acks |-> 1, quorum |-> quorumSize, ok |-> 1 >= quorumSize]

noReplicasResult == [acks |-> 1, quorum |-> 1, ok |-> TRUE]

\* The handler's result for a forwarded write, which is not replicated.
forwardedResult == [acks |-> 1, quorum |-> 1, ok |-> TRUE]

\* What replicate() returns with acks at a.
replicateResultThreshold(a) == [acks |-> a, quorum |-> quorumSize, ok |-> a >= threshold]

replicateResult(a) == [acks |-> a, quorum |-> quorumSize, ok |-> a >= quorumSize]

\* json(res, repl.ok ? 200 : 500, {ok, acks, quorum})
replyOf(repl) ==
    [status |-> IF repl.ok THEN 200 ELSE 500, ok |-> repl.ok, acks |-> repl.acks,
     quorum |-> repl.quorum]

\* json(res, 400, {error: 'Invalid JSON'})
invalidJsonReply == [status |-> 400, ok |-> FALSE, acks |-> 0, quorum |-> 0]

\* The GET handler: 404 {found: false}, or 200 {found: true, value}.
getReply(s, key) ==
    LET v == get(s, key)
    IN  IF v = Null THEN [status |-> 404, found |-> FALSE, value |-> Null]
        ELSE [status |-> 200, found |-> TRUE, value |-> v.value]

\* ac.abort(): the forwards still in flight are rejected.
abortAll(r) == [s \in Peers |-> IF promise[r][s] = "pending" THEN "rejected" ELSE promise[r][s]]

\* The primary receives a PUT or DELETE on /kv and runs its handler up to the
\* first point where it waits: DB.put or DB.del, then for an originating
\* write the start of replicate().
HandleWrite(r, m) ==
    /\ requests[r] = NoRequest
    /\ \A q \in 1..(r - 1) : requests[q] # NoRequest
    /\ engine[Primary] = "open"
    /\ requests' = [requests EXCEPT ![r] = m]
    /\ IF m.method = "PUT" /\ ~requestValue(m).ok
       THEN /\ reply' = [reply EXCEPT ![r] = invalidJsonReply]
            /\ pc' = [pc EXCEPT ![r] = "done"]
            /\ UNCHANGED <<memTable, walQueue, applied, acks, promise, delivery, mark>>
       ELSE /\ applyRequest(Primary, m)
            /\ mark' = [mark EXCEPT ![r][Primary] = Len(applied[Primary]) + 1]
            /\ IF isForwarded(m)
               THEN /\ reply' = [reply EXCEPT ![r] = replyOf(forwardedResult)]
                    /\ pc' = [pc EXCEPT ![r] = "done"]
                    /\ UNCHANGED <<acks, promise, delivery>>
               ELSE IF Len(REPLICAS) = 0
               THEN /\ reply' = [reply EXCEPT ![r] = replyOf(noReplicasResult)]
                    /\ pc' = [pc EXCEPT ![r] = "done"]
                    /\ UNCHANGED <<acks, promise, delivery>>
               ELSE /\ acks' = [acks EXCEPT ![r] = 1]
                    /\ IF 1 < threshold
                       THEN /\ promise' = [promise EXCEPT ![r] =
                                   [s \in Peers |-> IF s \in Replicas THEN "pending" ELSE "none"]]
                            /\ delivery' = [delivery EXCEPT ![r] =
                                   [s \in Peers |-> IF s \in Replicas THEN "inflight" ELSE "none"]]
                            /\ pc' = [pc EXCEPT ![r] = "sleep"]
                       ELSE \* the loop is not entered; 1 >= quorumSize aborts at once
                            /\ promise' = [promise EXCEPT ![r] =
                                   [s \in Peers |-> IF s \in Replicas
                                        THEN (IF 1 >= quorumSize THEN "rejected" ELSE "pending")
                                        ELSE "none"]]
                            /\ delivery' = [delivery EXCEPT ![r] =
                                   [s \in Peers |-> IF s \in Replicas
                                        THEN (IF 1 >= quorumSize THEN "lost" ELSE "inflight")
                                        ELSE "none"]]
                            /\ pc' = [pc EXCEPT ![r] = "settle"]
                    /\ UNCHANGED reply
    /\ UNCHANGED <<walFile, snapshotFile, engine, opCount, restarts, downBy, torn, everTorn,
                   tableAtOpen, tableAtClose, flushedTable, walBeforeTear,
                   thrown, walAtOpen, REPLICAS,
                   quorumSize>>
    /\ UNCHANGED coordVars

\* The 1 ms timer of the polling loop fires.
TimerFire(r) ==
    /\ pc[r] = "sleep"
    /\ pc' = [pc EXCEPT ![r] = "woke"]
    /\ UNCHANGED <<requests, acks, promise, delivery, reply, mark, REPLICAS, quorumSize>>
    /\ UNCHANGED engineVars
    /\ UNCHANGED histVars
    /\ UNCHANGED coordVars

ResumeAbortAlways(r) ==
    /\ pc[r] = "woke"
    /\ pc' = [pc EXCEPT ![r] = "settle"]
    /\ promise' = [promise EXCEPT ![r] = abortAll(r)]
    /\ UNCHANGED <<requests, acks, delivery, reply, mark, REPLICAS, quorumSize>>
    /\ UNCHANGED engineVars
    /\ UNCHANGED histVars
    /\ UNCHANGED coordVars

\* replicate() resumes after the timer: the every() test, the loop test, and
\* past the loop the abort.
Resume(r) ==
    /\ pc[r] = "woke"
    /\ IF ~everySettled(r) /\ acks[r] < threshold
       THEN /\ pc' = [pc EXCEPT ![r] = "sleep"]
            /\ UNCHANGED promise
       ELSE /\ pc' = [pc EXCEPT ![r] = "settle"]
            /\ promise' = [promise EXCEPT ![r] =
                    IF acks[r] >= quorumSize THEN abortAll(r) ELSE promise[r]]
    /\ UNCHANGED <<requests, acks, delivery, reply, mark, REPLICAS, quorumSize>>
    /\ UNCHANGED engineVars
    /\ UNCHANGED histVars
    /\ UNCHANGED coordVars

ReplicateReturnRollback(r) ==
    /\ pc[r] = "settle"
    /\ \A s \in Replicas : promise[r][s] \in {"fulfilled", "rejected"}
    /\ reply' = [reply EXCEPT ![r] = replyOf(replicateResult(acks[r]))]
    /\ pc' = [pc EXCEPT ![r] = "done"]
    /\ memTable' = [memTable EXCEPT ![Primary] =
            IF replicateResult(acks[r]).ok THEN @
            ELSE [k \in DOMAIN @ \ {requests[r].key} |-> @[k]]]
    /\ UNCHANGED <<requests, acks, promise, delivery, mark, REPLICAS, quorumSize>>
    /\ UNCHANGED <<walQueue, walFile, snapshotFile, engine>>
    /\ UNCHANGED histVars
    /\ UNCHANGED coordVars

\* await Promise.allSettled(promises) is over: replicate() returns and the
\* handler sends the reply.
ReplicateReturn(r) ==
    /\ pc[r] = "settle"
    /\ \A s \in Replicas : promise[r][s] \in {"fulfilled", "rejected"}
    /\ reply' = [reply EXCEPT ![r] = replyOf(replicateResult(acks[r]))]
    /\ pc' = [pc EXCEPT ![r] = "done"]
    /\ UNCHANGED <<requests, acks, promise, delivery, mark, REPLICAS, quorumSize>>
    /\ UNCHANGED engineVars
    /\ UNCHANGED histVars
    /\ UNCHANGED coordVars

\* Replica s receives the forwarded request and runs the same handler: it
\* applies the write to its engine and answers 200 without replicating.
ReplicaApply(r, s) ==
    /\ delivery[r][s] = "inflight"
    /\ engine[shardOf(s)] = "open"
    /\ LET m == mutationOf(requests[r])
       IN  applyRequest(shardOf(s), forwardWrite(requests[r].method, m.key, m.value))
    /\ delivery' = [delivery EXCEPT ![r][s] = "applied"]
    /\ mark' = [mark EXCEPT ![r][shardOf(s)] = Len(applied[shardOf(s)]) + 1]
    /\ UNCHANGED <<walFile, snapshotFile, engine, opCount, restarts, downBy, torn, everTorn,
                   tableAtOpen, tableAtClose, flushedTable, walBeforeTear,
                   thrown, walAtOpen, REPLICAS,
                   quorumSize, requests, pc, acks, promise, reply>>
    /\ UNCHANGED coordVars

ForwardFulfilUnapplied(r, s) ==
    /\ promise[r][s] = "pending"
    /\ promise' = [promise EXCEPT ![r][s] = "fulfilled"]
    /\ acks' = [acks EXCEPT ![r] = @ + 1]
    /\ UNCHANGED <<requests, pc, delivery, reply, mark, REPLICAS, quorumSize>>
    /\ UNCHANGED engineVars
    /\ UNCHANGED histVars
    /\ UNCHANGED coordVars

\* The replica's 200 arrives: forwardWrite fulfils and .then counts the ack.
ForwardFulfil(r, s) ==
    /\ promise[r][s] = "pending"
    /\ delivery[r][s] = "applied"
    /\ promise' = [promise EXCEPT ![r][s] = "fulfilled"]
    /\ acks' = [acks EXCEPT ![r] = @ + 1]
    /\ UNCHANGED <<requests, pc, delivery, reply, mark, REPLICAS, quorumSize>>
    /\ UNCHANGED engineVars
    /\ UNCHANGED histVars
    /\ UNCHANGED coordVars

ForwardRejectCounted(r, s) ==
    /\ promise[r][s] = "pending"
    /\ promise' = [promise EXCEPT ![r][s] = "rejected"]
    /\ acks' = [acks EXCEPT ![r] = @ + 1]
    /\ UNCHANGED <<requests, pc, delivery, reply, mark, REPLICAS, quorumSize>>
    /\ UNCHANGED engineVars
    /\ UNCHANGED histVars
    /\ UNCHANGED coordVars

\* The forward fails (the replica is unreachable, answers non-2xx, or the
\* connection breaks): forwardWrite rejects and .catch swallows it. A request
\* that is on its way may still reach the replica.
ForwardReject(r, s) ==
    /\ promise[r][s] = "pending"
    /\ promise' = [promise EXCEPT ![r][s] = "rejected"]
    /\ UNCHANGED <<requests, pc, acks, delivery, reply, mark, REPLICAS, quorumSize>>
    /\ UNCHANGED engineVars
    /\ UNCHANGED histVars
    /\ UNCHANGED coordVars

\* A shard with its replication settings, serving up to MaxReqs write requests.
ShardInit ==
    /\ EngineInit
    /\ ServerInit
    /\ CoordOff
    /\ REPLICAS \in ReplicaLists
    /\ quorumSize \in 1..MaxQuorum

ShardNext ==
    \/ \E r \in Reqs, m \in WriteRequests : HandleWrite(r, m)
    \/ \E r \in Reqs : TimerFire(r)
    \/ \E r \in Reqs : Resume(r)
    \/ \E r \in Reqs : ReplicateReturn(r)
    \/ \E r \in Reqs, s \in Peers : ReplicaApply(r, s)
    \/ \E r \in Reqs, s \in Peers : ForwardFulfil(r, s)
    \/ \E r \in Reqs, s \in Peers : ForwardReject(r, s)

SpecShard == ShardInit /\ [][ShardNext]_vars

\* A shard whose replica list names shard s2 twice.
DuplicatesInit ==
    /\ EngineInit
    /\ ServerInit
    /\ CoordOff
    /\ REPLICAS = <<"s2", "s2b">>
    /\ quorumSize \in 1..MaxQuorum

SpecDuplicates == DuplicatesInit /\ [][ShardNext]_vars

\* The same shard with the flush timer of its engine running.
ShardWalNext ==
    \/ ShardNext
    \/ FlushTick(Primary)

SpecShardWal == ShardInit /\ [][ShardWalNext]_vars

\* The event loop runs every timer and every continuation that is due.
FairSpecShard ==
    /\ SpecShard
    /\ \A r \in Reqs : WF_vars(TimerFire(r)) /\ WF_vars(Resume(r)) /\ WF_vars(ReplicateReturn(r))

\* The shard with replicas that are all reachable and a quorum above 1: no
\* forward fails, a forward ends by the replica's answer or by the abort.
ReachableInit ==
    /\ EngineInit
    /\ ServerInit
    /\ CoordOff
    /\ REPLICAS \in {<<"s2">>, <<"s2", "s3">>}
    /\ quorumSize \in 2..MaxQuorum

ReachableNext ==
    \/ \E r \in Reqs, m \in WriteRequests : HandleWrite(r, m)
    \/ \E r \in Reqs : TimerFire(r)
    \/ \E r \in Reqs : Resume(r)
    \/ \E r \in Reqs : ReplicateReturn(r)
    \/ \E r \in Reqs, s \in Peers : ReplicaApply(r, s)
    \/ \E r \in Reqs, s \in Peers : ForwardFulfil(r, s)

SpecReachable == ReachableInit /\ [][ReachableNext]_vars

\* ------------------------------------------------- processes building a ring

reverse(list) == [j \in 1..Len(list) |-> list[Len(list) + 1 - j]]

BuildRingOwnOrder(c) ==
    /\ ring[c] = <<>>
    /\ SHARDS # <<>>
    /\ ring' = [ring EXCEPT ![c] =
            buildRing(IF c = Router THEN SHARDS ELSE reverse(SHARDS), vnodeCount)]
    /\ UNCHANGED <<sha1, SHARDS, vnodeCount, picks>>
    /\ UNCHANGED <<engineVars, histVars, shardVars, routerVars>>

\* A process calls buildRing(SHARDS, vnodeCount) and keeps the ring.
BuildRing(c) ==
    /\ ring[c] = <<>>
    /\ SHARDS # <<>>
    /\ ring' = [ring EXCEPT ![c] = buildRing(SHARDS, vnodeCount)]
    /\ UNCHANGED <<sha1, SHARDS, vnodeCount, picks>>
    /\ UNCHANGED <<engineVars, histVars, shardVars, routerVars>>

\* A process calls pickNode(ring, key) on its ring; the call only reads the ring.
PickNode(c, key) ==
    /\ ring[c] # <<>>
    /\ Len(picks[c]) < MaxPicks
    /\ picks' = [picks EXCEPT ![c] = Append(@, [key |-> key, node |-> pickNode(ring[c], key)])]
    /\ UNCHANGED <<sha1, SHARDS, vnodeCount, ring>>
    /\ UNCHANGED <<engineVars, histVars, shardVars, routerVars>>

\* Two processes given the same shard list and vnodes count, under every
\* assignment of hash positions.
HashInit ==
    /\ EngineInit
    /\ ServerInit
    /\ REPLICAS = <<>>
    /\ quorumSize = 1
    /\ RouterInit
    /\ sha1 \in Hashes
    /\ SHARDS \in ShardLists
    /\ vnodeCount \in 1..MaxVnodes
    /\ ring = [c \in Coordinators |-> <<>>]
    /\ picks = [c \in Coordinators |-> <<>>]

HashNext ==
    \/ \E c \in Coordinators : BuildRing(c)
    \/ \E c \in Coordinators, k \in Keys : PickNode(c, k)

SpecHash == HashInit /\ [][HashNext]_vars

\* ------------------------------------------------- a changed shard list

\* list with n put in at place pos.
insertAt(list, n, pos) == SubSeq(list, 1, pos - 1) \o <<n>> \o SubSeq(list, pos, Len(list))

\* list without its entries n.
without(list, n) == SelectSeq(list, LAMBDA x : x # n)

\* The shard lists that differ from SHARDS by one shard: one new shard put in
\* at any place, or one shard taken out, the others keeping their order.
ChangedLists ==
    LET listed == {SHARDS[i] : i \in 1..Len(SHARDS)}
    IN  ({insertAt(SHARDS, n, pos) : n \in Shards \ listed, pos \in 1..(Len(SHARDS) + 1)}
         \cup {without(SHARDS, n) : n \in listed}) \ {<<>>}

BuildChangedRingReordered(c) ==
    /\ ring[c] = <<>>
    /\ SHARDS # <<>>
    /\ \E list \in ChangedLists : ring' = [ring EXCEPT ![c] = buildRing(reverse(list), vnodeCount)]
    /\ UNCHANGED <<sha1, SHARDS, vnodeCount, picks>>
    /\ UNCHANGED <<engineVars, histVars, shardVars, routerVars>>

\* A process started after the membership change builds its ring from the
\* changed list, with the same vnodes count.
BuildChangedRing(c) ==
    /\ ring[c] = <<>>
    /\ SHARDS # <<>>
    /\ \E list \in ChangedLists : ring' = [ring EXCEPT ![c] = buildRing(list, vnodeCount)]
    /\ UNCHANGED <<sha1, SHARDS, vnodeCount, picks>>
    /\ UNCHANGED <<engineVars, histVars, shardVars, routerVars>>

\* The labels whose positions vary in the rings of three shards.
MembershipLabels ==
    {vnodeLabel("s1", i) : i \in 0..(MaxVnodes - 1)}
    \cup {vnodeLabel("s2", 0), vnodeLabel("s3", 0)} \cup Keys

MembershipHashes ==
    {[l \in AllLabels |-> IF l \in MembershipLabels THEN g[l] ELSE 0] :
        g \in [MembershipLabels -> Positions]}

\* One process with the ring of SHARDS, one with the ring of a changed list.
MembershipInit ==
    /\ EngineInit
    /\ ServerInit
    /\ REPLICAS = <<>>
    /\ quorumSize = 1
    /\ RouterInit
    /\ sha1 \in MembershipHashes
    /\ SHARDS \in ShardLists
    /\ vnodeCount \in 1..MaxVnodes
    /\ ring = [c \in Coordinators |-> <<>>]
    /\ picks = [c \in Coordinators |-> <<>>]

MembershipNext ==
    \/ BuildRing("c1")
    \/ BuildChangedRing("c2")
    \/ \E c \in Coordinators, k \in Keys : PickNode(c, k)

SpecMembership == MembershipInit /\ [][MembershipNext]_vars

\* ----------------------------------------------------------- the coordinator

\* The requests a client sends to /kv of the coordinator.
ClientRequests ==
    {[method |-> mt, key |-> k, ctype |-> "none", body |-> <<>>, forwarded |-> FALSE] :
        mt \in {"GET", "DELETE"}, k \in Keys}
    \cup {[method |-> "PUT", key |-> k, ctype |-> "text/plain", body |-> TextV,
           forwarded |-> FALSE] : k \in Keys}
    \cup {[method |-> "PUT", key |-> k, ctype |-> "application/json", body |-> TextBraces,
           forwarded |-> FALSE] : k \in Keys}

\* The request proxy(method, shardBase, key, bodyStr) sends with fetch.
proxy(m) ==
    [method |-> m.method, key |-> m.key, ctype |-> "text/plain",
     body |-> IF m.method = "PUT" THEN m.body ELSE <<>>, forwarded |-> FALSE]

\* A handler's json(res, code, obj) as the HTTP response: status and body.
response(rep) ==
    [status |-> rep.status, body |-> [f \in DOMAIN rep \ {"status"} |-> rep[f]]]

\* GET /route?key=K of the coordinator.
routeReply(key) == [status |-> 200, key |-> key, shard |-> pickNode(ring[Router], key)]

\* The coordinator receives a GET, PUT or DELETE on /kv: it picks the node
\* and proxy() sends the request to it.
RouterReceive(q, m) ==
    /\ rreq[q] = NoRequest
    /\ \A o \in 1..(q - 1) : rreq[o] # NoRequest
    /\ ring[Router] # <<>>
    /\ rreq' = [rreq EXCEPT ![q] = m]
    /\ LET node == pickNode(ring[Router], m.key)
       IN  proxied' = [proxied EXCEPT ![q] = Append(@, [shard |-> node, request |-> proxy(m)])]
    /\ rpc' = [rpc EXCEPT ![q] = "proxying"]
    /\ repliedBefore' = [repliedBefore EXCEPT ![q] = {o \in RouterReqs : rreply[o] # NoReply}]
    /\ UNCHANGED <<resp, rreply>>
    /\ UNCHANGED <<engineVars, histVars, shardVars, ringVars>>

\* The shard the request was sent to runs its /kv handler; it has no replicas.
ShardServe(q) ==
    /\ rpc[q] = "proxying"
    /\ resp[q] = NoResponse
    /\ Len(REPLICAS) = 0
    /\ LET s == proxied[q][1].shard
           m == proxied[q][1].request
       IN  /\ s \in Shards
           /\ engine[s] = "open"
           /\ IF m.method = "GET"
              THEN /\ resp' = [resp EXCEPT ![q] = response(getReply(s, m.key))]
                   /\ UNCHANGED <<memTable, walQueue, applied>>
              ELSE IF m.method = "PUT" /\ ~requestValue(m).ok
              THEN /\ resp' = [resp EXCEPT ![q] = response(invalidJsonReply)]
                   /\ UNCHANGED <<memTable, walQueue, applied>>
              ELSE /\ applyRequest(s, m)
                   /\ resp' = [resp EXCEPT ![q] = response(replyOf(
                          IF isForwarded(m) THEN forwardedResult ELSE noReplicasResult))]
    /\ UNCHANGED <<walFile, snapshotFile, engine, opCount, restarts, downBy, torn, everTorn,
                   tableAtOpen, tableAtClose, flushedTable, walBeforeTear,
                   thrown, walAtOpen>>
    /\ UNCHANGED <<rreq, rpc, proxied, rreply, repliedBefore>>
    /\ UNCHANGED <<shardVars, ringVars>>

\* fetch rejects (the shard is unreachable or the connection breaks): proxy()
\* throws inside the async handler, which ends without writing to res.
FetchFail(q) ==
    /\ rpc[q] = "proxying"
    /\ rpc' = [rpc EXCEPT ![q] = "rejected"]
    /\ UNCHANGED <<rreq, proxied, resp, rreply, repliedBefore>>
    /\ UNCHANGED <<engineVars, histVars, shardVars, ringVars>>

RouterReplyAlwaysOk(q) ==
    /\ rpc[q] = "proxying"
    /\ resp[q] # NoResponse
    /\ rreply' = [rreply EXCEPT ![q] = [status |-> 200, body |-> resp[q].body]]
    /\ rpc' = [rpc EXCEPT ![q] = "done"]
    /\ UNCHANGED <<rreq, proxied, resp, repliedBefore>>
    /\ UNCHANGED <<engineVars, histVars, shardVars, ringVars>>

\* The shard's response arrives: res.writeHead(r.status), res.end(r.body).
RouterReply(q) ==
    /\ rpc[q] = "proxying"
    /\ resp[q] # NoResponse
    /\ rreply' = [rreply EXCEPT ![q] = [status |-> resp[q].status, body |-> resp[q].body]]
    /\ rpc' = [rpc EXCEPT ![q] = "done"]
    /\ UNCHANGED <<rreq, proxied, resp, repliedBefore>>
    /\ UNCHANGED <<engineVars, histVars, shardVars, ringVars>>

\* The hash functions of the coordinator's behaviours: the keys take every position.
RouterHashes ==
    {h \in Hashes :
        /\ h[vnodeLabel("s1", 0)] = 1
        /\ h[vnodeLabel("s2", 0)] = 2
        /\ \A n \in {"s1", "s2"}, i \in 1..(MaxVnodes - 1) : h[vnodeLabel(n, i)] = 0}

\* A coordinator started with two shards, each shard without replicas.
CoordInit ==
    /\ EngineInit
    /\ ServerInit
    /\ REPLICAS = <<>>
    /\ quorumSize = 1
    /\ RouterInit
    /\ sha1 \in RouterHashes
    /\ SHARDS = <<"s1", "s2">>
    /\ vnodeCount = VNODES_MIN
    /\ ring = [c \in Coordinators |-> IF c = Router THEN buildRing(SHARDS, vnodeCount) ELSE <<>>]
    /\ picks = [c \in Coordinators |-> <<>>]

CoordNext ==
    \/ \E q \in RouterReqs, m \in ClientRequests : RouterReceive(q, m)
    \/ \E q \in RouterReqs : ShardServe(q)
    \/ \E q \in RouterReqs : FetchFail(q)
    \/ \E q \in RouterReqs : RouterReply(q)

SpecCoord == CoordInit /\ [][CoordNext]_vars

\* ------------------------------------------------ calls on a closed engine

PutClosedApplying(s, key, value) ==
    /\ engine[s] = "closed"
    /\ Len(thrown) < MaxThrown
    /\ put(s, key, value)
    /\ thrown' = Append(thrown, [op |-> "put", error |-> "DB closed"])
    /\ UNCHANGED <<walFile, snapshotFile, engine, opCount, restarts, downBy, torn, everTorn,
                   tableAtOpen, tableAtClose, flushedTable, walBeforeTear, walAtOpen>>
    /\ UNCHANGED <<shardVars, coordVars>>

\* db.put(key, value) after close(): if (closed) throw new Error('DB closed').
PutClosed(s, key, value) ==
    /\ engine[s] = "closed"
    /\ Len(thrown) < MaxThrown
    /\ thrown' = Append(thrown, [op |-> "put", error |-> "DB closed"])
    /\ UNCHANGED engineVars
    /\ UNCHANGED <<applied, opCount, restarts, downBy, torn, everTorn, tableAtOpen,
                   tableAtClose, flushedTable, walBeforeTear, walAtOpen>>
    /\ UNCHANGED <<shardVars, coordVars>>

\* db.del(key) after close(): if (closed) throw new Error('DB closed').
DelClosed(s, key) ==
    /\ engine[s] = "closed"
    /\ Len(thrown) < MaxThrown
    /\ thrown' = Append(thrown, [op |-> "del", error |-> "DB closed"])
    /\ UNCHANGED engineVars
    /\ UNCHANGED <<applied, opCount, restarts, downBy, torn, everTorn, tableAtOpen,
                   tableAtClose, flushedTable, walBeforeTear, walAtOpen>>
    /\ UNCHANGED <<shardVars, coordVars>>

\* The engine closed and reopened, with put and del also called after close().
ClosedNext ==
    \/ \E v \in PutValues : Put(Primary, KeyA, v)
    \/ Del(Primary, KeyA)
    \/ FlushTick(Primary)
    \/ Close(Primary)
    \/ Open(Primary)
    \/ \E k \in Keys, v \in PutValues : PutClosed(Primary, k, v)
    \/ \E k \in Keys : DelClosed(Primary, k)

SpecClosed == Init /\ [][ClosedNext]_vars

\* ------------------------------------------------------ a damaged snapshot

\* The snapshot file of a stopped engine is damaged: gunzipSync or JSON.parse
\* will throw on it.
DamageSnapshot(s) ==
    /\ engine[s] \in {"closed", "down"}
    /\ restarts < MaxRestarts
    /\ snapshotFile[s].exists
    /\ snapshotFile[s].ok
    /\ snapshotFile' = [snapshotFile EXCEPT ![s].ok = FALSE]
    /\ UNCHANGED <<memTable, walQueue, walFile, engine>>
    /\ UNCHANGED histVars
    /\ UNCHANGED <<shardVars, coordVars>>

\* The engine over a snapshot file that is damaged while the engine is stopped.
BadSnapshotNext ==
    \/ \E v \in PutValues : Put(Primary, KeyA, v)
    \/ Del(Primary, KeyA)
    \/ FlushTick(Primary)
    \/ SnapshotTick(Primary)
    \/ Close(Primary)
    \/ Crash(Primary)
    \/ Open(Primary)
    \/ DamageSnapshot(Primary)

SpecBadSnapshot == Init /\ [][BadSnapshotNext]_vars

\* ------------------------------------------------------- failing file writes

\* A flush tick whose fs.writeSync or fs.fsyncSync throws: the records were
\* taken off the queue by splice(0), the bytes are written if it was the
\* fsync that failed, and the exception leaves the timer callback uncaught,
\* which ends the process.
FlushFail(s) ==
    /\ engine[s] = "open"
    /\ walQueue[s] # <<>>
    /\ \E written \in BOOLEAN :
          walFile' = [walFile EXCEPT ![s] = IF written THEN @ \o concat(walQueue[s]) ELSE @]
    /\ walQueue' = [walQueue EXCEPT ![s] = <<>>]
    /\ memTable' = [memTable EXCEPT ![s] = EmptyTable]
    /\ applied' = [applied EXCEPT ![s] = <<>>]
    /\ engine' = [engine EXCEPT ![s] = "down"]
    /\ downBy' = "ioerror"
    /\ torn' = "none"
    /\ UNCHANGED <<snapshotFile, opCount, restarts, everTorn, tableAtOpen, tableAtClose,
                   flushedTable, walBeforeTear, thrown, walAtOpen>>
    /\ UNCHANGED <<shardVars, coordVars>>

\* A snapshot tick whose fs.writeFileSync throws: the file is left as it was
\* or partly written, and the uncaught exception ends the process.
SnapshotFail(s) ==
    /\ engine[s] = "open"
    /\ \E partly \in BOOLEAN :
          snapshotFile' = [snapshotFile EXCEPT ![s] =
              IF partly THEN [exists |-> TRUE, ok |-> FALSE, entries |-> {}] ELSE @]
    /\ walQueue' = [walQueue EXCEPT ![s] = <<>>]
    /\ memTable' = [memTable EXCEPT ![s] = EmptyTable]
    /\ applied' = [applied EXCEPT ![s] = <<>>]
    /\ engine' = [engine EXCEPT ![s] = "down"]
    /\ downBy' = "ioerror"
    /\ torn' = "none"
    /\ UNCHANGED <<walFile, opCount, restarts, everTorn, tableAtOpen, tableAtClose,
                   flushedTable, walBeforeTear, thrown, walAtOpen>>
    /\ UNCHANGED <<shardVars, coordVars>>

\* The engine on a disk whose writes can fail.
IoNext ==
    \/ \E v \in PutValues : Put(Primary, KeyA, v)
    \/ Del(Primary, KeyA)
    \/ FlushTick(Primary)
    \/ SnapshotTick(Primary)
    \/ Close(Primary)
    \/ Open(Primary)
    \/ FlushFail(Primary)
    \/ SnapshotFail(Primary)

SpecIo == Init /\ [][IoNext]_vars

\* ------------------------------------------------ requests answered 4xx

\* Requests the handler refuses: /kv without a key, /kv with a method other
\* than GET, PUT and DELETE, and a path the server does not know.
RefusedRequests ==
    {[path |-> "/kv", method |-> "PUT", key |-> <<>>, ctype |-> "text/plain",
      body |-> TextV, forwarded |-> f] : f \in BOOLEAN}
    \cup {[path |-> "/kv", method |-> "DELETE", key |-> <<>>, ctype |-> "none",
           body |-> <<>>, forwarded |-> FALSE]}
    \cup {[path |-> "/kv", method |-> "POST", key |-> KeyA, ctype |-> "text/plain",
           body |-> TextV, forwarded |-> FALSE]}
    \cup {[path |-> "/other", method |-> "PUT", key |-> KeyA, ctype |-> "text/plain",
           body |-> TextV, forwarded |-> FALSE]}

\* json(res, 400, {error: 'missing key'}), json(res, 405, ...), json(res, 404, ...)
refusal(m) ==
    [status |-> IF m.path = "/kv"
                THEN (IF m.key = <<>> THEN 400 ELSE 405)
                ELSE 404,
     ok |-> FALSE, acks |-> 0, quorum |-> 0]

HandleRefusedApplying(r, m) ==
    /\ requests[r] = NoRequest
    /\ \A q \in 1..(r - 1) : requests[q] # NoRequest
    /\ engine[Primary] = "open"
    /\ requests' = [requests EXCEPT ![r] = m]
    /\ put(Primary, m.key, [kind |-> "string", text |-> m.body])
    /\ reply' = [reply EXCEPT ![r] = refusal(m)]
    /\ pc' = [pc EXCEPT ![r] = "done"]
    /\ UNCHANGED <<acks, promise, delivery, mark, REPLICAS, quorumSize>>
    /\ UNCHANGED <<walFile, snapshotFile, engine, opCount, restarts, downBy, torn, everTorn,
                   tableAtOpen, tableAtClose, flushedTable, walBeforeTear,
                   thrown, walAtOpen>>
    /\ UNCHANGED coordVars

\* The handler for a request it refuses: it replies before any call of the
\* engine and before replicate().
HandleRefused(r, m) ==
    /\ requests[r] = NoRequest
    /\ \A q \in 1..(r - 1) : requests[q] # NoRequest
    /\ engine[Primary] = "open"
    /\ requests' = [requests EXCEPT ![r] = m]
    /\ reply' = [reply EXCEPT ![r] = refusal(m)]
    /\ pc' = [pc EXCEPT ![r] = "done"]
    /\ UNCHANGED <<acks, promise, delivery, mark, REPLICAS, quorumSize>>
    /\ UNCHANGED engineVars
    /\ UNCHANGED histVars
    /\ UNCHANGED coordVars

\* The shard serving writes and requests it refuses.
RefusingNext ==
    \/ ShardNext
    \/ \E r \in Reqs, m \in RefusedRequests : HandleRefused(r, m)

SpecRefusing == ShardInit /\ [][RefusingNext]_vars

\* ------------------------------------------------ the flush timer at work

\* One run of the engine from open to close.
FlushNext ==
    \/ \E k \in Keys, v \in PutValues : Put(Primary, k, v)
    \/ \E k \in Keys : Del(Primary, k)
    \/ FlushTick(Primary)
    \/ Close(Primary)

\* setInterval keeps calling the flush callback while the engine is open.
SpecFlush == Init /\ [][FlushNext]_vars /\ WF_vars(FlushTick(Primary))

\* ------------------------------------------------------ close called twice

\* db.close() on a closed engine: the call returns at the closed test. The
\* call is logged with the calls made on a closed engine; it throws nothing.
CloseAgain(s) ==
    /\ engine[s] = "closed"
    /\ Len(thrown) < MaxThrown
    /\ thrown' = Append(thrown, [op |-> "close", error |-> "none"])
    /\ UNCHANGED <<applied, opCount, restarts, downBy, torn, everTorn, tableAtOpen,
                   tableAtClose, flushedTable, walBeforeTear, walAtOpen>>
    /\ UNCHANGED <<engineVars, shardVars, coordVars>>

\* One run of the engine with both timers, closed once or more.
TimersNext ==
    \/ \E v \in PutValues : Put(Primary, KeyA, v)
    \/ Del(Primary, KeyA)
    \/ FlushTick(Primary)
    \/ SnapshotTick(Primary)
    \/ Close(Primary)
    \/ CloseAgain(Primary)

SpecTimers == Init /\ [][TimersNext]_vars

\* ------------------------------------------------- crashes with two keys

\* A second plain-text value.
TextW == <<119>>

\* One data directory, two keys with plain-text values, both timers, and
\* crashes followed by recovery.
CrashNext ==
    \/ \E k \in Keys, t \in {TextV, TextW} : Put(Primary, k, Str(t))
    \/ \E k \in Keys : Del(Primary, k)
    \/ FlushTick(Primary)
    \/ SnapshotTick(Primary)
    \/ Crash(Primary)
    \/ Open(Primary)

SpecCrash == Init /\ [][CrashNext]_vars

\* ------------------------------------------ runs that follow a torn WAL

\* One data directory with plain-text values: runs ended by close, the WAL
\* file damaged once between two runs.
TornWritesNext ==
    \/ \E t \in {TextV, TextW} : Put(Primary, KeyA, Str(t))
    \/ Del(Primary, KeyA)
    \/ FlushTick(Primary)
    \/ Close(Primary)
    \/ Open(Primary)
    \/ Tear(Primary)

SpecTornWrites == Init /\ [][TornWritesNext]_vars

\* --------------------------------------------------------------- properties

\* The index of the last mutation of key in a log, 0 when there is none.
lastMutation(log, key) ==
    LET hits == {i \in 1..Len(log) : log[i].key = key}
    IN  IF hits = {} THEN 0 ELSE CHOOSE i \in hits : \A j \in hits : j <= i

\* What last-write-wins asks get(key) to return on shard s.
expected(s, base, key) ==
    LET i == lastMutation(applied[s], key)
    IN  IF i = 0 THEN (IF key \in DOMAIN base THEN base[key] ELSE Null)
        ELSE IF applied[s][i].op = "put" THEN [value |-> applied[s][i].value]
        ELSE Null

\* C1: on an open engine get(k) returns the value of the most recent put of k
\* when the most recent mutation of k was a put, and null when k was never
\* put or was last deleted, whatever flush and snapshot ticks came between.
C1_LastWriteWins ==
    engine[Primary] = "open" =>
        \A k \in Keys \cup DOMAIN memTable[Primary] :
            get(Primary, k) = expected(Primary, tableAtOpen, k)

C1_Witness ==
    /\ engine[Primary] = "open"
    /\ Len(applied[Primary]) = 3
    /\ applied[Primary][1] = [op |-> "put", key |-> KeyA, value |-> Str(TextV)]
    /\ applied[Primary][2] = [op |-> "del", key |-> KeyA, value |-> Null]
    /\ applied[Primary][3] = [op |-> "put", key |-> KeyB, value |-> EmptyObject]
    /\ get(Primary, KeyA) = Null
    /\ get(Primary, KeyB) = [value |-> EmptyObject]
    /\ snapshotFile[Primary].exists
    /\ walFile[Primary] # <<>>

\* C2: after close() and a new makeFastDB on the same directory the table
\* equals the table the engine had when close() was called.
C2_CleanRestartKeepsTable ==
    (engine[Primary] = "open" /\ restarts > 0 /\ downBy = "close" /\ ~everTorn)
        => tableAtOpen = tableAtClose

\* C4: after a crash, recovery from the snapshot and the WAL file yields the
\* table the live engine had when its last WAL record was written and fsynced.
C4_CrashRecoversFlushedTable ==
    (engine[Primary] = "open" /\ restarts > 0 /\ downBy = "crash" /\ ~everTorn)
        => tableAtOpen = flushedTable

\* C5: with a torn WAL tail the reopened table is the replay of the complete
\* records that precede the torn bytes; the torn bytes change no key.
C5_TornTailChangesNothing ==
    (engine[Primary] = "open" /\ restarts > 0 /\ torn # "none")
        => tableAtOpen = recover(snapshotFile[Primary], walBeforeTear).table

\* C6: makeFastDB does not throw on a WAL whose tail is a truncated header or
\* a record whose lengths exceed the remaining bytes.
C6_OpenNeverThrows ==
    torn # "none" => engine[Primary] # "failed"

\* Every forward of request r has settled.
settled(r) == \A s \in Replicas : promise[r][s] \in {"fulfilled", "rejected"}

\* Request r is a write the primary answered with {ok, acks, quorum}.
answered(r) == requests[r] # NoRequest /\ reply[r].status \in {200, 500}

\* bytes holds the record rec.
contains(bytes, rec) ==
    \E i \in 0..(Len(bytes) - Len(rec)) : SubSeq(bytes, i + 1, i + Len(rec)) = rec

\* The WAL record of the PUT request m.
recordOf(m) == serializeRecord("put", m.key, requestValue(m).value)

\* The table that applying a log to an empty table gives, last write winning.
replayLog(log) ==
    LET keys == {log[i].key : i \in 1..Len(log)}
        live == {k \in keys : log[lastMutation(log, k)].op = "put"}
    IN  [k \in live |-> [value |-> log[lastMutation(log, k)].value]]

\* What a GET answers right after mutation mu of its key.
observed(mu) ==
    IF mu.op = "put" THEN [status |-> 200, found |-> TRUE, value |-> mu.value]
    ELSE [status |-> 404, found |-> FALSE, value |-> Null]

\* C3 as stated: once a PUT is answered with success, the WAL file of the
\* primary holds a record encoding the write and the table holds its value.
C3_ReplyMeansInWalFile ==
    \A r \in Reqs :
        (answered(r) /\ requests[r].method = "PUT" /\ reply[r].ok) =>
            /\ contains(walFile[Primary], recordOf(requests[r]))
            /\ get(Primary, requests[r].key) = [value |-> requestValue(requests[r]).value]

\* C3 amended: once a PUT is answered with success, the WAL file followed by
\* the WAL buffer holds a record encoding the write, and the table holds its
\* value unless a later mutation of the same key was applied on the shard.
C3_ReplyMeansLogged ==
    \A r \in Reqs :
        (answered(r) /\ requests[r].method = "PUT" /\ reply[r].ok) =>
            /\ contains(walFile[Primary] \o concat(walQueue[Primary]), recordOf(requests[r]))
            /\ mark[r][Primary] > 0
            /\ lastMutation(applied[Primary], requests[r].key) = mark[r][Primary]
                => get(Primary, requests[r].key) = [value |-> requestValue(requests[r]).value]

C3_Witness ==
    /\ answered(1) /\ requests[1].method = "PUT" /\ reply[1].ok
    /\ ~requests[1].forwarded
    /\ Len(REPLICAS) > 0
    /\ requests[2].method = "DELETE"
    /\ mark[2][Primary] > mark[1][Primary]
    /\ get(Primary, KeyA) = Null
    /\ walFile[Primary] = serializeRecord("put", KeyA, Str(TextV))
    /\ walQueue[Primary] # <<>>

\* C7: when every forward of an originating write has settled, replicate()
\* returns and the client gets its reply.
C7_ReplicationTerminates ==
    \A r \in Reqs :
        (pc[r] \in {"sleep", "woke", "settle"} /\ settled(r)) ~> (reply[r] # NoReply)

\* C8: an originating write answered ok = false stays applied: the primary's
\* table is its applied mutations with nothing taken back, a GET that no later
\* mutation of the key precedes observes the write, and a replica that applied
\* the forward keeps it.
C8_NoRollback ==
    \A r \in Reqs :
        (answered(r) /\ ~requests[r].forwarded /\ ~reply[r].ok) =>
            /\ mark[r][Primary] > 0
            /\ applied[Primary][mark[r][Primary]] = mutationOf(requests[r])
            /\ memTable[Primary] = replayLog(applied[Primary])
            /\ lastMutation(applied[Primary], requests[r].key) = mark[r][Primary]
                => getReply(Primary, requests[r].key) = observed(mutationOf(requests[r]))
            /\ \A s \in Replicas :
                delivery[r][s] = "applied" =>
                    /\ mark[r][s] > 0
                    /\ applied[s][mark[r][s]] = mutationOf(requests[r])
                    /\ memTable[s] = replayLog(applied[s])

C8_Witness ==
    /\ answered(1) /\ ~requests[1].forwarded /\ ~reply[1].ok
    /\ requests[1].method = "PUT"
    /\ delivery[1]["s2"] = "applied"
    /\ answered(2) /\ ~requests[2].forwarded /\ ~reply[2].ok
    /\ requests[2].method = "DELETE"
    /\ get(Primary, KeyA) = Null
    /\ get("s2", KeyA) # Null

\* C9 as stated: with quorum > replicas.length + 1 every reply to an
\* originating PUT has ok = false.
C9_ImpossibleQuorum ==
    quorumSize > Len(REPLICAS) + 1 =>
        \A r \in Reqs :
            (answered(r) /\ requests[r].method = "PUT" /\ ~requests[r].forwarded)
                => ~reply[r].ok

\* C9 amended: with a non-empty replica list and quorum > replicas.length + 1
\* every reply to an originating PUT has ok = false.
C9_ImpossibleQuorumWithReplicas ==
    (Len(REPLICAS) > 0 /\ quorumSize > Len(REPLICAS) + 1) =>
        \A r \in Reqs :
            (answered(r) /\ requests[r].method = "PUT" /\ ~requests[r].forwarded)
                => ~reply[r].ok

C9_Witness ==
    /\ Len(REPLICAS) > 0
    /\ quorumSize > Len(REPLICAS) + 1
    /\ requests[1].method = "PUT" /\ ~requests[1].forwarded
    /\ reply[1] = [status |-> 500, ok |-> FALSE, acks |-> Len(REPLICAS) + 1,
                   quorum |-> quorumSize]

\* C10: with an empty replica list every reply to a PUT or DELETE has
\* acks = 1, quorum = 1 and ok = true, whatever the configured quorum.
C10_NoReplicas ==
    Len(REPLICAS) = 0 =>
        \A r \in Reqs :
            answered(r) => reply[r] = [status |-> 200, ok |-> TRUE, acks |-> 1, quorum |-> 1]

C10_Witness ==
    /\ Len(REPLICAS) = 0
    /\ quorumSize > 1
    /\ requests[1].method = "PUT" /\ ~requests[1].forwarded /\ answered(1)
    /\ requests[2].method = "DELETE" /\ ~requests[2].forwarded /\ answered(2)

\* Shard s applied the write of request r and no write of another request.
onlyWrite(r, s) == \A o \in Reqs \ {r} : mark[o][s] = 0

\* C11: a write that carries the forwarding marker is applied to the engine
\* of the shard that receives it and to no other, starts no forward even when
\* the shard has replicas, and is answered with acks = 1.
C11_ForwardedNotReplicated ==
    \A r \in Reqs :
        (requests[r] # NoRequest /\ requests[r].forwarded) =>
            /\ \A s \in Shards : promise[r][s] = "none" /\ delivery[r][s] = "none"
            /\ \A s \in Shards \ {Primary} : mark[r][s] = 0
            /\ mark[r][Primary] > 0
            /\ applied[Primary][mark[r][Primary]] = mutationOf(requests[r])
            /\ reply[r] = [status |-> 200, ok |-> TRUE, acks |-> 1, quorum |-> 1]

C11_Witness ==
    /\ Len(REPLICAS) = 2
    /\ quorumSize = 2
    /\ requests[1].method = "PUT" /\ requests[1].forwarded
    /\ requests[2].method = "DELETE" /\ requests[2].forwarded
    /\ reply[2].acks = 1
    /\ Len(applied[Primary]) = 2
    /\ \A s \in Replicas : applied[s] = <<>>

\* The setting of scenario 7: s1 with replicas s2 and s3, quorum 2.
scenario7 == REPLICAS = <<"s2", "s3">> /\ quorumSize = 2

\* C12 as stated: in scenario 7 a PUT at s1 is answered 200 with acks >= 2
\* and a GET of the key at s2 after the reply returns the value, in whatever
\* order the forwards complete.
C12_ReplicaS2HoldsValue ==
    scenario7 =>
        \A r \in Reqs :
            (answered(r) /\ requests[r].method = "PUT" /\ ~requests[r].forwarded) =>
                /\ reply[r].status = 200
                /\ reply[r].acks >= 2
                /\ onlyWrite(r, "s2")
                    => getReply("s2", requests[r].key) = observed(mutationOf(requests[r]))

\* C12 amended: in scenario 7 a PUT at s1 is answered 200 with acks >= 2; at
\* least one replica acknowledged, and a GET of the key after the reply
\* returns the value at every replica that acknowledged.
C12_AcknowledgedReplicasHoldValue ==
    scenario7 =>
        \A r \in Reqs :
            (answered(r) /\ requests[r].method = "PUT" /\ ~requests[r].forwarded) =>
                /\ reply[r].status = 200
                /\ reply[r].acks >= 2
                /\ \E s \in Replicas : promise[r][s] = "fulfilled"
                /\ \A s \in Replicas :
                    (promise[r][s] = "fulfilled" /\ onlyWrite(r, s))
                        => getReply(s, requests[r].key) = observed(mutationOf(requests[r]))

C12_Witness ==
    /\ scenario7
    /\ requests[1].method = "PUT" /\ ~requests[1].forwarded
    /\ reply[1] = [status |-> 200, ok |-> TRUE, acks |-> 2, quorum |-> 2]
    /\ promise[1]["s3"] = "fulfilled"
    /\ promise[1]["s2"] = "rejected"
    /\ requests[2] = NoRequest
    /\ getReply("s3", KeyA).status = 200
    /\ getReply("s2", KeyA).status = 404

\* C13: in scenario 8 (replicas s2, reachable, quorum 3) a PUT at s1 is
\* answered with status 200 and ok = false, acks = 2, quorum = 3, and the
\* write stays visible at s1.
C13_Scenario8Reply ==
    (REPLICAS = <<"s2">> /\ quorumSize = 3) =>
        \A r \in Reqs :
            (answered(r) /\ requests[r].method = "PUT" /\ ~requests[r].forwarded) =>
                /\ reply[r] = [status |-> 200, ok |-> FALSE, acks |-> 2, quorum |-> 3]
                /\ onlyWrite(r, Primary)
                    => getReply(Primary, requests[r].key) = observed(mutationOf(requests[r]))

\* The shards of a shard list.
nodesOf(list) == {list[i] : i \in 1..Len(list)}

\* r is sorted ascending by position.
sorted(r) == \A i, j \in 1..Len(r) : i < j => r[i].hash <= r[j].hash

\* C17: every pick on a ring built from a non-empty shard list with at least
\* one virtual node per shard returns a shard of the list; with a single
\* shard every pick returns that shard.
C17_PickIsMember ==
    \A c \in Coordinators : \A i \in 1..Len(picks[c]) :
        /\ picks[c][i].node \in nodesOf(SHARDS)
        /\ Len(SHARDS) = 1 => picks[c][i].node = SHARDS[1]

C17_Witness ==
    /\ SHARDS = <<"s2", "s1">>
    /\ vnodeCount = 2
    /\ Len(picks[Router]) = 2
    /\ picks[Router][1].key = KeyA
    /\ \A j \in 1..Len(ring[Router]) : ring[Router][j].hash < hashInt(KeyA)
    /\ picks[Router][1].node = ring[Router][1].node
    /\ picks[Router][2].key = KeyB
    /\ picks[Router][2].node # picks[Router][1].node

linearPick(r, t) ==
    LET at == {j \in 1..Len(r) : r[j].hash >= t}
    IN  IF at = {} THEN r[1].node
        ELSE r[CHOOSE j \in at : \A k \in at : j <= k].node

\* C19: on a sorted ring pickNode returns the shard of the lowest-index entry
\* whose position is at or past the key's position, and the shard of entry 0
\* when the key's position is past every entry.
C19_PickIsClockwiseSuccessor ==
    \A c \in Coordinators :
        /\ sorted(ring[c])
        /\ \A i \in 1..Len(picks[c]) :
              picks[c][i].node = linearPick(ring[c], hashInt(picks[c][i].key))

C19_Witness ==
    /\ Len(ring["c1"]) = 4
    /\ ring["c1"][1].hash < hashInt(KeyA)
    /\ ring["c1"][2].hash = hashInt(KeyA)
    /\ ring["c1"][3].hash = hashInt(KeyA)
    /\ ring["c1"][2].node # ring["c1"][3].node
    /\ ring["c1"][4].hash < hashInt(KeyB)
    /\ picks["c1"] = <<[key |-> KeyA, node |-> ring["c1"][2].node],
                       [key |-> KeyB, node |-> ring["c1"][1].node]>>

\* Router request q is a GET that arrived after the reply to p, the two being
\* the only requests that reached the shard of their key.
getAfter(p, q) ==
    /\ rreq[q] # NoRequest /\ rreq[q].method = "GET"
    /\ rreq[q].key = rreq[p].key
    /\ p \in repliedBefore[q]
    /\ rreply[q] # NoReply
    /\ \A o \in RouterReqs \ {p, q} : rreq[o] = NoRequest \/ rreq[o].method = "GET"

\* C14: a PUT with Content-Type application/json through the router is
\* stored as the parsed JSON value: a GET of the key through the router after
\* the PUT's reply returns the object, not its text.
C14_RouterKeepsJson ==
    \A p, q \in RouterReqs :
        (/\ rreq[p] # NoRequest /\ rreq[p].method = "PUT"
         /\ rreq[p].ctype = "application/json" /\ JSONparse(rreq[p].body).ok
         /\ rreply[p].status = 200
         /\ getAfter(p, q))
            => /\ rreply[q].status = 200
               /\ rreply[q].body.value = JSONparse(rreq[p].body).value

\* C15: a /kv handler of the router never ends without a reply to the client,
\* and when the fetch to the picked shard failed the reply is a 5xx.
C15_HandlerEndsWithReply ==
    \A q \in RouterReqs :
        /\ rpc[q] \in {"done", "rejected"} => rreply[q] # NoReply
        /\ rpc[q] = "rejected" => rreply[q].status >= 500

\* C16: every /kv request of the router is sent to one shard, the shard
\* pickNode gives for its key, which is the shard GET /route reports, and the
\* client receives the status and the body of that shard's response.
C16_RouterTransparent ==
    \A q \in RouterReqs :
        rreq[q] # NoRequest =>
            /\ Len(proxied[q]) = 1
            /\ proxied[q][1].shard = pickNode(ring[Router], rreq[q].key)
            /\ proxied[q][1].shard = routeReply(rreq[q].key).shard
            /\ proxied[q][1].shard \in nodesOf(SHARDS)
            /\ proxied[q][1].request.method = rreq[q].method
            /\ proxied[q][1].request.key = rreq[q].key
            /\ rreply[q] # NoReply =>
                  /\ resp[q] # NoResponse
                  /\ rreply[q].status = resp[q].status
                  /\ rreply[q].body = resp[q].body

C16_Witness ==
    /\ rreq[1].method = "PUT" /\ rreq[1].key = KeyA
    /\ proxied[1][1].shard = "s2"
    /\ rreply[1].status = 200 /\ rreply[1].body = [ok |-> TRUE, acks |-> 1, quorum |-> 1]
    /\ rreq[2].method = "GET" /\ rreq[2].key = KeyB
    /\ proxied[2][1].shard = "s1"
    /\ rreply[2].status = 404 /\ rreply[2].body = [found |-> FALSE, value |-> Null]
    /\ get("s2", KeyA) # Null
    /\ memTable["s1"] = EmptyTable

\* C20: a stored string is returned as that string and a stored object as an
\* equal object, on the live engine and after close and reopen: every value
\* the table held at close() has the same kind and content after recovery.
C20_ValueKindRoundTrip ==
    /\ engine[Primary] = "open" =>
          \A i \in 1..Len(applied[Primary]) :
              (applied[Primary][i].op = "put"
                  /\ lastMutation(applied[Primary], applied[Primary][i].key) = i)
                  => get(Primary, applied[Primary][i].key).value = applied[Primary][i].value
    /\ (engine[Primary] = "open" /\ restarts > 0 /\ downBy = "close" /\ ~everTorn) =>
          \A k \in DOMAIN tableAtClose :
              /\ k \in DOMAIN tableAtOpen
              /\ tableAtOpen[k].value.kind = tableAtClose[k].value.kind
              /\ tableAtOpen[k].value = tableAtClose[k].value

\* C21: while the engine is closed every put and del throws 'DB closed' and
\* no call changes the table, the WAL buffer or the WAL file, nor is counted
\* as applied.
C21_ClosedRejects ==
    [][ /\ (engine[Primary] = "closed" /\ engine'[Primary] = "closed") =>
            /\ memTable'[Primary] = memTable[Primary]
            /\ walQueue'[Primary] = walQueue[Primary]
            /\ walFile'[Primary] = walFile[Primary]
            /\ applied'[Primary] = applied[Primary]
        /\ thrown' # thrown =>
            /\ engine[Primary] = "closed"
            /\ thrown'[Len(thrown')].error = "DB closed"
            /\ UNCHANGED engineVars ]_vars

C21_Witness ==
    /\ engine[Primary] = "closed"
    /\ thrown = <<[op |-> "put", error |-> "DB closed"], [op |-> "del", error |-> "DB closed"]>>
    /\ get(Primary, KeyA) = [value |-> Str(TextV)]
    /\ walQueue[Primary] = <<>>
    /\ walFile[Primary] = serializeRecord("put", KeyA, Str(TextV))

\* The bytes the mutations of a log serialize to, in the order of the log.
recordsOf(log) ==
    concat([i \in 1..Len(log) |->
        serializeRecord(log[i].op, log[i].key,
                        IF log[i].op = "put" THEN log[i].value ELSE Str(<<>>))])

RECURSIVE applyLog(_, _)
\* The table after the mutations of a log are applied to it in order.
applyLog(table, log) ==
    IF log = <<>> THEN table
    ELSE applyLog(applyRecord(table, Head(log).op, Head(log).key, Head(log).value), Tail(log))

\* a is a prefix of b.
isPrefix(a, b) == Len(a) <= Len(b) /\ SubSeq(b, 1, Len(a)) = a

\* C22: when close() has returned the WAL buffer is empty and the WAL file is
\* what the open found, followed by the record of every put and del made
\* since, each once and in call order, whatever flush ticks came between.
C22_CloseDrains ==
    engine[Primary] = "closed" =>
        /\ walQueue[Primary] = <<>>
        /\ walFile[Primary] = walAtOpen \o recordsOf(applied[Primary])

C22_Witness ==
    /\ engine[Primary] = "closed"
    /\ restarts = 1
    /\ walAtOpen # <<>>
    /\ Len(applied[Primary]) = 2
    /\ applied[Primary][1].op = "put" /\ applied[Primary][2].op = "del"
    /\ applied[Primary][1].key = applied[Primary][2].key
    /\ walFile[Primary] # walAtOpen

\* C23: on an open engine the WAL file followed by the WAL buffer is what the
\* open found followed by the records of the applied mutations in apply
\* order, and the table is those mutations applied in that order.
C23_WalOrderIsApplyOrder ==
    engine[Primary] = "open" =>
        /\ isPrefix(walAtOpen, walFile[Primary])
        /\ walFile[Primary] \o concat(walQueue[Primary])
              = walAtOpen \o recordsOf(applied[Primary])
        /\ memTable[Primary] = applyLog(tableAtOpen, applied[Primary])

C23_Witness ==
    /\ engine[Primary] = "open"
    /\ Len(applied[Primary]) = 3
    /\ Len(walQueue[Primary]) = 1
    /\ walFile[Primary] = recordsOf(SubSeq(applied[Primary], 1, 2))
    /\ applied[Primary][1].key = KeyA /\ applied[Primary][2].key = KeyB
    /\ applied[Primary][3].op = "del"

\* C24: no step of the engine removes or rewrites bytes of the WAL file, and
\* a snapshot changes neither the WAL file, the WAL buffer nor the table.
C24_WalAppendOnly ==
    [][ /\ isPrefix(walFile[Primary], walFile'[Primary])
        /\ snapshotFile' # snapshotFile =>
              UNCHANGED <<walFile, walQueue, memTable>> ]_vars

C24_Witness ==
    /\ engine[Primary] = "open"
    /\ restarts = 1
    /\ snapshotFile[Primary] = snapshotOf(memTable[Primary])
    /\ memTable[Primary] # tableAtOpen
    /\ walFile[Primary] # walAtOpen
    /\ walAtOpen # <<>>
    /\ walQueue[Primary] # <<>>

\* C25: when makeFastDB finds a snapshot file that cannot be decompressed or
\* parsed it does not throw, and the table it builds is the replay of the
\* WAL file alone.
C25_BadSnapshotIgnored ==
    (/\ engine[Primary] \in {"open", "failed"} /\ restarts > 0
     /\ snapshotFile[Primary].exists /\ ~snapshotFile[Primary].ok) =>
        /\ engine[Primary] = "open"
        /\ tableAtOpen = walReplay(walAtOpen, 0, EmptyTable).table

C25_Witness ==
    /\ engine[Primary] = "open" /\ restarts > 0
    /\ snapshotFile[Primary].exists /\ ~snapshotFile[Primary].ok
    /\ snapshotFile[Primary].entries # {}
    /\ walAtOpen # <<>>
    /\ tableAtOpen # tableOf(snapshotFile[Primary].entries)
    /\ applied[Primary] = <<>>

\* C26: once the shard has replied to a PUT or DELETE of a key, a GET of the
\* key observes that mutation or a mutation of the key applied after it,
\* whatever other handlers are suspended in replication.
C26_ReadAfterWrite ==
    \A r \in Reqs :
        answered(r) =>
            LET k == requests[r].key
                i == lastMutation(applied[Primary], k)
            IN  /\ mark[r][Primary] > 0
                /\ i >= mark[r][Primary]
                /\ getReply(Primary, k) = observed(applied[Primary][i])

C26_Witness ==
    /\ requests[1].method = "PUT" /\ ~requests[1].forwarded
    /\ pc[1] = "sleep" /\ reply[1] = NoReply
    /\ requests[2].method = "DELETE" /\ ~requests[2].forwarded
    /\ answered(2)
    /\ mark[2][Primary] > mark[1][Primary]
    /\ getReply(Primary, KeyA).status = 404

\* C27: a failed WAL write, fsync or snapshot write never stops the engine.
C27_NoStopOnIoError ==
    downBy # "ioerror"

\* C28: a request answered 400, 405 or 404 changes neither the table nor the
\* WAL buffer in the step that answers it, and no forward to a replica is
\* ever started for it.
C28_ClientErrorsNoEffect ==
    [][\A r \in Reqs :
          reply'[r].status \in {400, 404, 405} =>
              /\ reply[r].status = 0 =>
                    UNCHANGED <<memTable, walQueue, walFile, applied>>
              /\ \A s \in Shards :
                    /\ promise'[r][s] = "none"
                    /\ delivery'[r][s] = "none"
                    /\ mark'[r][s] = 0]_vars

C28_Witness ==
    /\ requests[1].method = "PUT" /\ pc[1] = "sleep"
    /\ \E s \in Shards : promise[1][s] = "pending"
    /\ memTable[Primary] # EmptyTable
    /\ walQueue[Primary] # <<>>
    /\ reply[2].status = 400
    /\ requests[2].key = <<>>

\* C29: when replicate leaves its wait loop the ack count has reached
\* min(quorum, replicas.length + 1) and no forward is left in flight, and
\* replicate cancels a forward only with the ack count at or above that
\* threshold.
C29_CancelAtThreshold ==
    [][\A r \in Reqs :
          /\ (pc'[r] = "settle" /\ pc[r] # "settle") =>
                /\ acks'[r] >= threshold
                /\ \A s \in Replicas : promise'[r][s] # "pending"
          /\ (pc'[r] # pc[r]
              /\ \E s \in Replicas :
                    promise'[r][s] = "rejected" /\ promise[r][s] \in {"pending", "none"}) =>
                acks'[r] >= threshold]_vars

C29_Witness ==
    /\ REPLICAS = <<"s2", "s3">> /\ quorumSize = 2
    /\ pc[1] = "settle" /\ reply[1] = NoReply
    /\ acks[1] = threshold
    /\ promise[1]["s3"] = "fulfilled"
    /\ promise[1]["s2"] = "rejected"
    /\ delivery[1]["s2"] = "inflight"

\* The replicas whose forward for request r returned a 2xx status.
acknowledged(r) == {s \in Replicas : promise[r][s] = "fulfilled"}

indexOf(list, n) == CHOOSE i \in 1..Len(list) : list[i] = n

\* C31: a ring built from shard list S with V virtual nodes has |S| * V
\* entries, V for each shard of S, in ascending order of position, and
\* entries at equal positions stand in the order in which they were pushed:
\* by the place of their shard in S.
C31_RingConstruction ==
    \A c \in Coordinators :
        ring[c] # <<>> =>
            /\ Len(ring[c]) = Len(SHARDS) * vnodeCount
            /\ \A n \in nodesOf(SHARDS) :
                  Cardinality({j \in 1..Len(ring[c]) : ring[c][j].node = n}) = vnodeCount
            /\ \A j \in 1..Len(ring[c]) : ring[c][j].node \in nodesOf(SHARDS)
            /\ sorted(ring[c])
            /\ \A i, j \in 1..Len(ring[c]) :
                  (i < j /\ ring[c][i].hash = ring[c][j].hash) =>
                      indexOf(SHARDS, ring[c][i].node) <= indexOf(SHARDS, ring[c][j].node)

C31_Witness ==
    /\ SHARDS = <<"s2", "s1">>
    /\ vnodeCount = 2
    /\ Len(ring[Router]) = 4
    /\ ring[Router][1].hash < ring[Router][2].hash
    /\ ring[Router][2].hash = ring[Router][3].hash
    /\ ring[Router][2].node = "s2" /\ ring[Router][3].node = "s1"
    /\ hashInt(vnodeLabel("s1", 0)) < hashInt(vnodeLabel("s2", 0))

\* The records of the first n mutations of this run are in the WAL file.
inWalFile(n) ==
    /\ Len(applied[Primary]) >= n
    /\ isPrefix(walAtOpen \o recordsOf(SubSeq(applied[Primary], 1, n)), walFile[Primary])

\* C32: every record a put or del enqueued reaches the WAL file, by a flush
\* tick or by close, and a flush tick appends the whole buffer to the file
\* and leaves the buffer empty.
C32_FlushProgress ==
    /\ \A n \in 1..MaxOps :
          (Len(applied[Primary]) >= n) ~> inWalFile(n)
    /\ [][(walFile'[Primary] # walFile[Primary]) =>
              /\ walFile'[Primary] = walFile[Primary] \o concat(walQueue[Primary])
              /\ walQueue'[Primary] = <<>>]_vars

C32_Witness ==
    /\ engine[Primary] = "open"
    /\ Len(applied[Primary]) = 3
    /\ Len(walQueue[Primary]) = 1
    /\ walFile[Primary] = recordsOf(SubSeq(applied[Primary], 1, 2))
    /\ applied[Primary][1].key # applied[Primary][2].key

\* C33: once close() has returned, nothing writes to the WAL file or the
\* snapshot file and nothing changes the buffer or the table, a second
\* close() included.
C33_TimersStopAtClose ==
    [][(engine[Primary] = "closed" /\ engine'[Primary] = "closed") =>
          UNCHANGED <<walFile, snapshotFile, walQueue, memTable>>]_vars

C33_Witness ==
    /\ engine[Primary] = "closed"
    /\ thrown = <<[op |-> "close", error |-> "none"]>>
    /\ snapshotFile[Primary].exists
    /\ snapshotFile[Primary] # snapshotOf(memTable[Primary])
    /\ walFile[Primary] = recordsOf(applied[Primary])
    /\ Len(applied[Primary]) = 2

\* The tables the primary's live table has had since the engine opened.
tablesOfRun ==
    {applyLog(tableAtOpen, SubSeq(applied[Primary], 1, n)) : n \in 0..Len(applied[Primary])}

\* C34: when the process crashes, the table that recovery builds from the
\* files left on disk is a table the live table had at some moment of the run.
C34_RecoveryIsHistorical ==
    [][(engine[Primary] = "open" /\ engine'[Primary] = "down") =>
          recover(snapshotFile'[Primary], walFile'[Primary]).table \in tablesOfRun]_vars

\* C35: when an engine that was opened over a torn WAL has been closed, the
\* next open succeeds and recovers, for every key the closed run mutated,
\* what the table held for it at close.
C35_WritesAfterTornTailDurable ==
    [][(engine[Primary] = "closed" /\ engine'[Primary] # "closed"
        /\ everTorn /\ torn = "none") =>
          /\ engine'[Primary] = "open"
          /\ \A k \in Keys :
                lastMutation(applied[Primary], k) > 0 =>
                    /\ (k \in DOMAIN memTable'[Primary]) = (k \in DOMAIN memTable[Primary])
                    /\ k \in DOMAIN memTable[Primary] =>
                          memTable'[Primary][k] = memTable[Primary][k]]_vars

\* The shards that have applied the mutation of request r.
appliedAt(r) ==
    {s \in Shards : /\ mark[r][s] > 0
                    /\ mark[r][s] <= Len(applied[s])
                    /\ applied[s][mark[r][s]] = mutationOf(requests[r])}

\* C36: when the reply to an originating write has ok = true, at least as
\* many distinct shards as the quorum the reply states have applied the
\* mutation.
C36_QuorumMeansApplied ==
    \A r \in Reqs :
        (answered(r) /\ ~requests[r].forwarded /\ reply[r].ok) =>
            /\ Primary \in appliedAt(r)
            /\ \A u \in acknowledged(r) : shardOf(u) \in appliedAt(r)
            /\ Cardinality(appliedAt(r)) >= reply[r].quorum

\* The shards of a ring.
shardsIn(r) == {r[j].node : j \in 1..Len(r)}

\* C37: between the ring of a shard list and the ring of the list with one
\* shard added or removed, a key whose shard differs is mapped to the added
\* shard in the larger ring or was mapped to the removed shard in the smaller
\* one: no key moves between two shards that are in both rings.
C37_RingMonotone ==
    \A i \in 1..Len(picks["c1"]), j \in 1..Len(picks["c2"]) :
        LET p == picks["c1"][i]
            q == picks["c2"][j]
        IN  (p.key = q.key /\ p.node # q.node) =>
                /\ ~(p.node \in shardsIn(ring["c2"]) /\ q.node \in shardsIn(ring["c1"]))
                /\ shardsIn(ring["c1"]) \subseteq shardsIn(ring["c2"]) =>
                      q.node \notin shardsIn(ring["c1"])
                /\ shardsIn(ring["c2"]) \subseteq shardsIn(ring["c1"]) =>
                      p.node \notin shardsIn(ring["c2"])

C37_Witness ==
    /\ SHARDS = <<"s2", "s1">>
    /\ vnodeCount = 2
    /\ shardsIn(ring["c2"]) = Shards
    /\ ring["c2"][1].node = "s3"
    /\ \E j \in 1..5 :
          /\ ring["c2"][j].hash = ring["c2"][j + 1].hash
          /\ ring["c2"][j].node = "s3" /\ ring["c2"][j + 1].node # "s3"
          /\ ring["c2"][j].hash = hashInt(KeyA)
    /\ picks["c1"] = <<[key |-> KeyA, node |-> "s2"], [key |-> KeyB, node |-> "s1"]>>
    /\ picks["c2"] = <<[key |-> KeyA, node |-> "s3"], [key |-> KeyB, node |-> "s1"]>>

\* C38: when the primary has applied two originating PUTs of one key, the
\* first before the second, both replications have completed and a replica
\* acknowledged both forwards, the replica holds for the key what the primary
\* holds: the value of the second PUT.
C38_ReplicaConverges ==
    \A s \in Replicas :
        (/\ requests[1].method = "PUT" /\ ~requests[1].forwarded
         /\ requests[2].method = "PUT" /\ ~requests[2].forwarded
         /\ requests[1].key = requests[2].key
         /\ answered(1) /\ answered(2)
         /\ promise[1][s] = "fulfilled" /\ promise[2][s] = "fulfilled") =>
            /\ mark[1][Primary] < mark[2][Primary]
            /\ get(Primary, requests[2].key) = [value |-> requestValue(requests[2]).value]
            /\ get(shardOf(s), requests[2].key) = get(Primary, requests[2].key)

\* C39: opening an engine writes nothing to the WAL file or the snapshot
\* file, and an open that follows a run closed without any put or del builds
\* the table the open before it built and finds the WAL that open found.
C39_RecoveryReadOnly ==
    [][(engine[Primary] \in {"closed", "down"} /\ engine'[Primary] \notin {"closed", "down"}) =>
          /\ UNCHANGED <<walFile, snapshotFile>>
          /\ (downBy = "close" /\ applied[Primary] = <<>>) =>
                /\ engine'[Primary] = "open"
                /\ memTable'[Primary] = tableAtOpen
                /\ walFile'[Primary] = walAtOpen]_vars

C39_Witness ==
    /\ engine[Primary] = "open"
    /\ restarts = 2
    /\ downBy = "close"
    /\ opCount = 1
    /\ flushedTable = [k \in {KeyA} |-> [value |-> Str(TextBraces)]]
    /\ tableAtClose = [k \in {KeyA} |-> [value |-> EmptyObject]]
    /\ memTable[Primary] = tableAtClose
    /\ snapshotFile[Primary].exists
    /\ walFile[Primary] = serializeRecord("put", KeyA, Str(TextBraces))

====
